---- MODULE Spec2Model ----
(***************************************************************************)
(* ASTRA / HPCShell job-control engine.                                    *)
(*                                                                         *)
(* Part 1: the priority Job Queue (src/queue.py).  The state is the        *)
(* JobQueue object: its job table, its named queues and its id counter,    *)
(* together with the wall clock the handlers read through time.time().     *)
(* Each public method is one action; the value it returns (or the          *)
(* exception it raises) is recorded in `last`.                             *)
(***************************************************************************)
EXTENDS Integers, Sequences, FiniteSets, TLC

(***************************************************************************)
(* Bounds of the model.                                                    *)
(***************************************************************************)
MaxJobs == 2        \* submissions per run, under every sequence of calls
MaxDrainJobs == 3   \* submissions per run of the dispatcher script
MaxTime == 1        \* largest clock reading
HistorySize == 2    \* history_size given to ResourceMonitor (3600 by default)
MaxRedirects == 2   \* redirections in one command descriptor
MaxPids == 2        \* processes spawned per run
MaxLine == 3        \* characters in one command line
MaxParseLine == 5   \* characters in one line given to the parser on its own

(***************************************************************************)
(* Optional[T]: None is the empty tuple, a present value v is <<v>>.       *)
(***************************************************************************)
None == <<>>
Some(v) == <<v>>

VARIABLES
    jobs,           \* self.jobs: job_id -> Job
    queues,         \* self.queues: queue name -> list of job ids
    next_job_id,    \* self.next_job_id
    clock,          \* last reading of time.time()
    last,           \* the last call: [op, job_id, queue, ret, exc]
    issued,         \* history: the ids returned by submit_job, in call order
    completed,      \* history: the ids for which complete_job returned True
    phase,          \* dispatcher script: "open", "submit", "drain"
    cur,            \* dispatcher script: the job taken for dispatch, or None
    dequeued        \* dispatcher script: the ids taken for dispatch, in order

\* Part 2: the Resource Monitor (src/resource.py).
VARIABLES
    history,        \* self.history: metric -> deque(maxlen = history_size)
    last_net_io,    \* self.last_net_io
    last_disk_io,   \* self.last_disk_io
    platform,       \* which I/O counters psutil reports on this host
    mon,            \* the last ResourceMonitor call: [op, metric, ret, exc]
    inserted,       \* history: metric -> every sample ever appended, in order
    taken,          \* history: the number of get_system_stats calls that succeeded
    loop            \* monitor_continuously: [pc, callback, interrupted, stats, given]

\* Part 3: the Executor (src/executor.py) and the processes it spawns.
VARIABLES
    ex,             \* the execute call in progress, or the last one
    procs,          \* the operating system's processes: pid -> state
    next_pid,       \* the pid the next spawned process gets
    processes,      \* self.processes: the pids the executor tracks
    outcome         \* the last execute_with_resources / get_process_stats call

\* Part 4: the shell's command dispatch (src/shell.py, src/parser.py).
VARIABLES
    sh              \* process_command: the parsed stages not yet dispatched,
                    \* and the built-in command last executed

queue_vars == <<jobs, queues, next_job_id, clock, last, issued, completed>>
script_vars == <<phase, cur, dequeued>>
monitor_vars == <<history, last_net_io, last_disk_io, platform, mon, inserted,
                  taken, loop>>
\* everything outside the Job Queue and its dispatcher script
exec_vars == <<ex, procs, next_pid, processes, outcome>>

\* Part 5: the parser called on its own (src/parser.py).
VARIABLES
    arg,            \* the argument of the call
    result          \* the call made and what it returned: [op, ret]

\* Part 6: a reader of the Job Queue on a second thread (src/queue.py), and
\* the shell's own job table (src/shell.py, src/builtin.py).
VARIABLES
    writer,             \* the JobQueue method the writer thread is inside
    seen,               \* what the reader's last call read
    shell_jobs,         \* HPCShell.jobs: job_id -> job_info
    shell_next_job_id,  \* HPCShell.next_job_id
    builtin             \* the last built-in command executed

shell_vars == <<sh>>
parse_vars == <<arg, result>>
late_vars == <<writer, seen, shell_jobs, shell_next_job_id, builtin>>
ext_vars == <<monitor_vars, exec_vars, shell_vars, parse_vars, late_vars>>
\* everything outside the Resource Monitor, the clock apart
job_vars == <<jobs, queues, next_job_id, last, issued, completed, script_vars>>
vars == <<jobs, queues, next_job_id, clock, last, issued, completed,
          phase, cur, dequeued, monitor_vars, exec_vars, shell_vars,
          parse_vars, late_vars>>

(***************************************************************************)
(* Priority (enum): name -> value.                                         *)
(***************************************************************************)
Priority == [LOW |-> 3, NORMAL |-> 2, HIGH |-> 1, CRITICAL |-> 0]

\* str.upper() on the priority strings the model submits.
Upper(s) ==
    CASE s = "low" -> "LOW"
      [] s = "normal" -> "NORMAL"
      [] s = "High" -> "HIGH"
      [] s = "critical" -> "CRITICAL"
      [] s = "urgent" -> "URGENT"
      [] OTHER -> s

\* try: Priority[priority.upper()]  except KeyError: Priority.NORMAL
PriorityEnum(priority) ==
    IF Upper(priority) \in DOMAIN Priority
        THEN Priority[Upper(priority)]
        ELSE Priority.NORMAL

\* The priority strings and queue names callers pass.  "urgent" is no member
\* of Priority; "scratch" is no queue of the configuration.
PriorityArgs == {"low", "normal", "High", "critical", "urgent"}
QueueArgs == {"default", "scratch"}
ReturnCodes == {0, 1}

\* config 'scheduler'.'queues'
ConfigQueues == {"default", "long", "gpu", "short"}

\* The job ids callers pass: every id ever issued, and ids never issued.
IdArgs == 1 .. (MaxJobs + 1)

(***************************************************************************)
(* time.time(): a reading not earlier than the previous one.  Two calls    *)
(* may read the same value.                                                *)
(***************************************************************************)
TimeReadings == {t \in clock .. (clock + 1) : t <= MaxTime}

(***************************************************************************)
(* Job(...): the record of a new job.  command, args, cores and memory are *)
(* stored as passed and no JobQueue method reads or writes them.           *)
(***************************************************************************)
NewJob(id, prio, queue, t) ==
    [job_id |-> id, priority |-> prio, queue |-> queue, created_at |-> t,
     started_at |-> None, completed_at |-> None, status |-> "queued",
     process_id |-> None, return_code |-> None]

(***************************************************************************)
(* _sort_queue: list.sort(key = (priority.value, created_at)), a stable    *)
(* sort.                                                                   *)
(***************************************************************************)
\* key(a) <= key(b) for the tuple key (priority.value, created_at)
KeyLE(js, a, b) ==
    \/ js[a].priority < js[b].priority
    \/ /\ js[a].priority = js[b].priority
       /\ js[a].created_at <= js[b].created_at

\* x placed behind every element whose key is <= key(x)
RECURSIVE InsertByKey(_, _, _)
InsertByKey(js, s, x) ==
    IF s = <<>> THEN <<x>>
    ELSE IF KeyLE(js, Head(s), x)
        THEN <<Head(s)>> \o InsertByKey(js, Tail(s), x)
        ELSE <<x>> \o s

RECURSIVE StableSort(_, _)
StableSort(js, s) ==
    IF s = <<>> THEN <<>>
    ELSE InsertByKey(js, StableSort(js, SubSeq(s, 1, Len(s) - 1)), s[Len(s)])

SortQueueUnsorted(js, qs, queue) == qs

SortQueue(js, qs, queue) ==
    IF queue \notin DOMAIN qs THEN qs
    ELSE [qs EXCEPT ![queue] = StableSort(js, qs[queue])]

(***************************************************************************)
(* list.remove(x): drops the first occurrence of x.                        *)
(***************************************************************************)
RECURSIVE ListRemove(_, _)
ListRemove(s, x) ==
    IF s = <<>> THEN <<>>
    ELSE IF Head(s) = x THEN Tail(s)
    ELSE <<Head(s)>> \o ListRemove(Tail(s), x)

Listed(s) == {s[i] : i \in 1 .. Len(s)}

RemoveFromQueuesNot(qs, job_id) == qs

\* for queue_name, job_ids in self.queues.items():
\*     if job_id in job_ids: job_ids.remove(job_id)
RemoveFromQueues(qs, job_id) ==
    [q \in DOMAIN qs |->
        IF job_id \in Listed(qs[q]) THEN ListRemove(qs[q], job_id) ELSE qs[q]]

\* self.queues[queue].append(id), the queue created when it is unknown
AppendToQueue(qs, queue, id) ==
    IF queue \in DOMAIN qs
        THEN [qs EXCEPT ![queue] = Append(@, id)]
        ELSE [q \in DOMAIN qs \cup {queue} |->
                IF q = queue THEN <<id>> ELSE qs[q]]

Call(op, job_id, queue, ret, exc) ==
    [op |-> op, job_id |-> job_id, queue |-> queue, ret |-> ret, exc |-> exc]

(***************************************************************************)
(* JobQueue.__init__                                                       *)
(***************************************************************************)
QueueInit ==
    /\ jobs = <<>>
    /\ queues = [q \in ConfigQueues |-> <<>>]
    /\ next_job_id = 1
    /\ clock = 0
    /\ last = Call("init", 0, "", None, "")
    /\ issued = <<>>
    /\ completed = {}

NextIdReused(n) == n

\* self.next_job_id += 1
NextId(n) == n + 1

(***************************************************************************)
(* JobQueue.submit_job                                                     *)
(***************************************************************************)
submit_job(queue, priority) ==
    \E t \in TimeReadings :
        LET id == next_job_id
            job == NewJob(id, PriorityEnum(priority), queue, t)
            js == [i \in DOMAIN jobs \cup {id} |->
                      IF i = id THEN job ELSE jobs[i]]
        IN  /\ clock' = t
            /\ jobs' = js
            /\ queues' = SortQueue(js, AppendToQueue(queues, queue, id), queue)
            /\ next_job_id' = NextId(next_job_id)
            /\ last' = Call("submit_job", id, queue, id, "")
            /\ issued' = Append(issued, id)
            /\ UNCHANGED completed

(***************************************************************************)
(* JobQueue.get_next_job                                                   *)
(***************************************************************************)
HeadOfLast(qs, queue) == qs[queue][Len(qs[queue])]

\* self.queues[queue][0]
HeadOf(qs, queue) == qs[queue][1]

get_next_job(queue) ==
    /\ IF queue \notin DOMAIN queues \/ queues[queue] = <<>>
         THEN last' = Call("get_next_job", 0, queue, None, "")
         ELSE LET job_id == HeadOf(queues, queue)
              IN  IF job_id \notin DOMAIN jobs
                    THEN last' = Call("get_next_job", job_id, queue, None, "KeyError")
                    ELSE IF jobs[job_id].status = "queued"
                        THEN last' = Call("get_next_job", job_id, queue, Some(job_id), "")
                        ELSE last' = Call("get_next_job", job_id, queue, None, "")
    /\ UNCHANGED <<jobs, queues, next_job_id, clock, issued, completed>>

(***************************************************************************)
(* JobQueue.start_job                                                      *)
(***************************************************************************)
\* start_job without its membership test: self.jobs[job_id] raises KeyError
start_job_unguarded(job_id) ==
    IF job_id \notin DOMAIN jobs
      THEN /\ last' = Call("start_job", job_id, "", None, "KeyError")
           /\ UNCHANGED <<jobs, queues, next_job_id, clock, issued, completed>>
      ELSE \E t \in TimeReadings :
           /\ clock' = t
           /\ jobs' = [jobs EXCEPT ![job_id].status = "running",
                                   ![job_id].started_at = Some(t)]
           /\ last' = Call("start_job", job_id, "", TRUE, "")
           /\ UNCHANGED <<queues, next_job_id, issued, completed>>

\* start_job taking the job off its queue as it starts it
start_job_dequeues(job_id) ==
    IF job_id \notin DOMAIN jobs
      THEN /\ last' = Call("start_job", job_id, "", FALSE, "")
           /\ UNCHANGED <<jobs, queues, next_job_id, clock, issued, completed>>
      ELSE \E t \in TimeReadings :
           /\ clock' = t
           /\ jobs' = [jobs EXCEPT ![job_id].status = "running",
                                   ![job_id].started_at = Some(t)]
           /\ queues' = RemoveFromQueues(queues, job_id)
           /\ last' = Call("start_job", job_id, "", TRUE, "")
           /\ UNCHANGED <<next_job_id, issued, completed>>

start_job(job_id) ==
    IF job_id \notin DOMAIN jobs
      THEN /\ last' = Call("start_job", job_id, "", FALSE, "")
           /\ UNCHANGED <<jobs, queues, next_job_id, clock, issued, completed>>
      ELSE \E t \in TimeReadings :
           /\ clock' = t
           /\ jobs' = [jobs EXCEPT ![job_id].status = "running",
                                   ![job_id].started_at = Some(t)]
           /\ last' = Call("start_job", job_id, "", TRUE, "")
           /\ UNCHANGED <<queues, next_job_id, issued, completed>>

(***************************************************************************)
(* JobQueue.complete_job                                                   *)
(***************************************************************************)
\* complete_job reporting a non-zero return code as a failure
complete_job_fails(job_id, return_code) ==
    IF job_id \notin DOMAIN jobs
      THEN /\ last' = Call("complete_job", job_id, "", FALSE, "")
           /\ UNCHANGED <<jobs, queues, next_job_id, clock, issued, completed>>
      ELSE \E t \in TimeReadings :
           /\ clock' = t
           /\ jobs' = [jobs EXCEPT ![job_id].status =
                                      IF return_code = 0 THEN "completed"
                                      ELSE "failed",
                                   ![job_id].completed_at = Some(t),
                                   ![job_id].return_code = Some(return_code)]
           /\ queues' = RemoveFromQueues(queues, job_id)
           /\ last' = Call("complete_job", job_id, "", TRUE, "")
           /\ completed' = completed \cup {job_id}
           /\ UNCHANGED <<next_job_id, issued>>

complete_job(job_id, return_code) ==
    IF job_id \notin DOMAIN jobs
      THEN /\ last' = Call("complete_job", job_id, "", FALSE, "")
           /\ UNCHANGED <<jobs, queues, next_job_id, clock, issued, completed>>
      ELSE \E t \in TimeReadings :
           /\ clock' = t
           /\ jobs' = [jobs EXCEPT ![job_id].status = "completed",
                                   ![job_id].completed_at = Some(t),
                                   ![job_id].return_code = Some(return_code)]
           /\ queues' = RemoveFromQueues(queues, job_id)
           /\ last' = Call("complete_job", job_id, "", TRUE, "")
           /\ completed' = completed \cup {job_id}
           /\ UNCHANGED <<next_job_id, issued>>

(***************************************************************************)
(* JobQueue.cancel_job                                                     *)
(***************************************************************************)
NotCancellableCompletedOnly == {"completed"}

\* if job.status in ('running', 'completed'): return False
NotCancellable == {"running", "completed"}

cancel_job(job_id) ==
    IF job_id \notin DOMAIN jobs
      THEN /\ last' = Call("cancel_job", job_id, "", FALSE, "")
           /\ UNCHANGED <<jobs, queues, next_job_id, clock, issued, completed>>
      ELSE IF jobs[job_id].status \in NotCancellable
        THEN /\ last' = Call("cancel_job", job_id, "", FALSE, "")
             /\ UNCHANGED <<jobs, queues, next_job_id, clock, issued, completed>>
        ELSE /\ jobs' = [jobs EXCEPT ![job_id].status = "cancelled"]
             /\ queues' = RemoveFromQueues(queues, job_id)
             /\ last' = Call("cancel_job", job_id, "", TRUE, "")
             /\ UNCHANGED <<next_job_id, clock, issued, completed>>

(***************************************************************************)
(* ResourceMonitor (src/resource.py).                                      *)
(*                                                                         *)
(* A sample keeps the timestamp and the first value of each history entry; *)
(* the other values of an entry (per_core, used, write_bytes, recv_bytes)  *)
(* are copied from the same reading and play no part in any operation.     *)
(***************************************************************************)
Metrics == {"cpu", "memory", "disk", "network"}

\* The metric names callers pass to get_history; "gpu" names no ring.
MetricArgs == Metrics \cup {"gpu"}
DurationArgs == {0, 1}

\* What psutil reads in one get_system_stats call: cpu_percent, memory
\* percent and the cumulative disk and network byte counters.
SystemReadings ==
    {[cpu |-> 10, mem |-> 40, disk |-> 4, net |-> 7],
     [cpu |-> 90, mem |-> 60, disk |-> 6, net |-> 9]}

\* The get_system_stats calls one run of the model makes.
MaxSamples == HistorySize + 2

DequeAppendUnbounded(d, x, maxlen) == Append(d, x)

\* deque(maxlen = n).append(x): a full deque drops its oldest item
DequeAppend(d, x, maxlen) ==
    IF maxlen = 0 THEN <<>>
    ELSE IF Len(d) >= maxlen THEN Append(Tail(d), x)
    ELSE Append(d, x)

\* monitor_continuously before it is called: its position (pc), whether a
\* callback was passed, whether KeyboardInterrupt reached it, the stats of the
\* current iteration and the stats the callback was last called with.
LoopIdle ==
    [pc |-> "idle", callback |-> FALSE, interrupted |-> FALSE,
     stats |-> None, given |-> None]

\* ResourceMonitor.__init__
MonitorInit ==
    /\ history = [m \in Metrics |-> <<>>]
    /\ last_net_io = None
    /\ last_disk_io = None
    /\ mon = [op |-> "init", metric |-> "", duration |-> 0, ret |-> None, exc |-> ""]
    /\ inserted = [m \in Metrics |-> <<>>]
    /\ taken = 0
    /\ loop = LoopIdle

\* psutil.disk_io_counters() / psutil.net_io_counters(): None on a host that
\* has no such counters
DiskIoCounters(r) == IF platform.disk THEN Some(r.disk) ELSE None
NetIoCounters(r) == IF platform.net THEN Some(r.net) ELSE None

\* stats['disk_io']: set when the counters are read and a baseline exists
DiskIoDelta(r) ==
    IF DiskIoCounters(r) # None /\ last_disk_io # None
        THEN Some(DiskIoCounters(r)[1] - last_disk_io[1])
        ELSE None

\* stats['network_io']: set when a baseline exists
NetIoDelta(r) ==
    IF last_net_io # None
        THEN Some(NetIoCounters(r)[1] - last_net_io[1])
        ELSE None

\* the stats dictionary; an absent key is None
SystemStats(r, t) ==
    [cpu_percent |-> r.cpu, memory_percent |-> r.mem,
     disk_io |-> DiskIoDelta(r), network_io |-> NetIoDelta(r),
     timestamp |-> t]

CpuEntry(stats) == [timestamp |-> stats.timestamp, value |-> stats.cpu_percent]
MemoryEntry(stats) == [timestamp |-> stats.timestamp, value |-> stats.memory_percent]
DiskEntry(stats) == [timestamp |-> stats.timestamp, value |-> stats.disk_io[1]]
NetworkEntry(stats) == [timestamp |-> stats.timestamp, value |-> stats.network_io[1]]

AddToHistoryCpuOnly(h, stats) ==
    [h EXCEPT !["cpu"] = DequeAppend(@, CpuEntry(stats), HistorySize)]

\* ResourceMonitor._add_to_history
AddToHistory(h, stats) ==
    [m \in DOMAIN h |->
        IF m = "cpu" THEN DequeAppend(h[m], CpuEntry(stats), HistorySize)
        ELSE IF m = "memory"
            THEN DequeAppend(h[m], MemoryEntry(stats), HistorySize)
        ELSE IF m = "disk" /\ stats.disk_io # None
            THEN DequeAppend(h[m], DiskEntry(stats), HistorySize)
        ELSE IF m = "network" /\ stats.network_io # None
            THEN DequeAppend(h[m], NetworkEntry(stats), HistorySize)
        ELSE h[m]]

\* ResourceMonitor.get_system_stats.  With a network baseline and no network
\* counters, net_io.bytes_sent raises AttributeError after last_disk_io is set.
get_system_stats(r, t) ==
    LET disk_io == DiskIoCounters(r)
        net_io == NetIoCounters(r)
        stats == SystemStats(r, t)
    IN  /\ last_disk_io' = IF disk_io # None THEN disk_io ELSE last_disk_io
        /\ IF last_net_io # None /\ net_io = None
             THEN /\ mon' = [op |-> "get_system_stats", metric |-> "", duration |-> 0,
                             ret |-> None, exc |-> "AttributeError"]
                  /\ UNCHANGED <<history, last_net_io, clock>>
             ELSE /\ last_net_io' = net_io
                  /\ clock' = t
                  /\ history' = AddToHistory(history, stats)
                  /\ mon' = [op |-> "get_system_stats", metric |-> "", duration |-> 0,
                             ret |-> stats, exc |-> ""]

AtOrAfterStrict(timestamp, cutoff) == timestamp > cutoff

\* entry['timestamp'] >= cutoff_time
AtOrAfter(timestamp, cutoff) == timestamp >= cutoff

\* [entry for entry in ring if entry['timestamp'] >= cutoff_time]
RECURSIVE EntriesSince(_, _)
EntriesSince(ring, cutoff) ==
    IF ring = <<>> THEN <<>>
    ELSE IF AtOrAfter(Head(ring).timestamp, cutoff)
        THEN <<Head(ring)>> \o EntriesSince(Tail(ring), cutoff)
        ELSE EntriesSince(Tail(ring), cutoff)

\* ResourceMonitor.get_history
get_history(metric, duration, t) ==
    /\ IF metric \notin DOMAIN history
         THEN /\ mon' = [op |-> "get_history", metric |-> metric, duration |-> duration,
                         ret |-> <<>>, exc |-> ""]
              /\ UNCHANGED clock
         ELSE /\ clock' = t
              /\ mon' = [op |-> "get_history", metric |-> metric, duration |-> duration,
                         ret |-> EntriesSince(history[metric], t - duration),
                         exc |-> ""]
    /\ UNCHANGED <<history, last_net_io, last_disk_io>>

WhileTrueEnds == "returned"

\* while True: after time.sleep(interval) the loop samples again
WhileTrue == "sample"

\* ResourceMonitor.monitor_continuously, entered: the try block starts with
\* the first get_system_stats call.
monitor_continuously(callback) ==
    /\ loop.pc \in {"idle", "returned"}
    /\ loop' = [LoopIdle EXCEPT !.pc = "sample", !.callback = callback]

\* stats = self.get_system_stats(); an exception other than KeyboardInterrupt
\* leaves the loop and the method.
loop_sample(r, t) ==
    /\ loop.pc = "sample"
    /\ get_system_stats(r, t)
    /\ IF mon'.exc # ""
         THEN loop' = [loop EXCEPT !.pc = "raised"]
         ELSE loop' = [loop EXCEPT !.stats = Some(mon'.ret),
                          !.pc = IF loop.callback THEN "callback" ELSE "sleep"]

\* if callback: callback(stats)
loop_callback ==
    /\ loop.pc = "callback"
    /\ loop' = [loop EXCEPT !.given = loop.stats, !.pc = "sleep"]

\* time.sleep(interval)
loop_sleep ==
    /\ loop.pc = "sleep"
    /\ loop' = [loop EXCEPT !.pc = WhileTrue]

\* KeyboardInterrupt raised anywhere inside the try block: except
\* KeyboardInterrupt: pass, and the method returns.
loop_interrupt ==
    /\ loop.pc \in {"sample", "callback", "sleep"}
    /\ loop' = [loop EXCEPT !.pc = "returned", !.interrupted = TRUE]

\* the samples a successful get_system_stats call has appended, ring by ring
Recorded(ins, stats) ==
    [m \in DOMAIN ins |->
        IF m = "cpu" THEN Append(ins[m], CpuEntry(stats))
        ELSE IF m = "memory" THEN Append(ins[m], MemoryEntry(stats))
        ELSE IF m = "disk" /\ stats.disk_io # None
            THEN Append(ins[m], DiskEntry(stats))
        ELSE IF m = "network" /\ stats.network_io # None
            THEN Append(ins[m], NetworkEntry(stats))
        ELSE ins[m]]

(***************************************************************************)
(* CommandExecutor (src/executor.py).                                      *)
(*                                                                         *)
(* A stream given to Popen is None (inherit), an open file, or one of the  *)
(* integers subprocess.PIPE, subprocess.STDOUT, subprocess.DEVNULL.  An    *)
(* exception is named by its class; "" is no exception.                    *)
(***************************************************************************)
Pids == 1..MaxPids

RedirectTypes == {"<", ">", ">>", "2>", "&>"}

\* one entry of cmd['redirects']: its operator and whether open() succeeds
\* on its file name
RedirectEntries == [type : RedirectTypes, openable : BOOLEAN]

\* cmd['redirects']: a dict, so its keys are distinct; iterated in insertion
\* order
RedirectDicts ==
    {r \in UNION {[1..n -> RedirectEntries] : n \in 0..MaxRedirects} :
        \A i, j \in DOMAIN r : i # j => r[i].type # r[j].type}

\* what subprocess.Popen does with full_cmd
LaunchOutcomes == {"ok", "FileNotFoundError", "PermissionError", "OSError"}

\* the command descriptors given to execute
Descriptors ==
    [command : {<<"l", "s">>}, background : BOOLEAN, redirects : RedirectDicts,
     launch : LaunchOutcomes]

Inherit == [kind |-> "None", of |-> "", mode |-> ""]
OpenFile(type, mode) == [kind |-> "file", of |-> type, mode |-> mode]
DEVNULL == [kind |-> "DEVNULL", of |-> "", mode |-> ""]
STDOUT == [kind |-> "STDOUT", of |-> "", mode |-> ""]

\* one iteration of the loop of _setup_redirects
SetupRedirect(streams, r) ==
    IF r.type = "<"
        THEN [streams EXCEPT !.stdin =
                IF r.openable THEN OpenFile("<", "r") ELSE DEVNULL]
    ELSE IF r.type = ">"
        THEN IF r.openable
                THEN [streams EXCEPT !.stdout = OpenFile(">", "w")]
                ELSE streams
    ELSE IF r.type = ">>"
        THEN IF r.openable
                THEN [streams EXCEPT !.stdout = OpenFile(">>", "a")]
                ELSE streams
    ELSE IF r.type = "2>"
        THEN IF r.openable
                THEN [streams EXCEPT !.stderr = OpenFile("2>", "w")]
                ELSE streams
    ELSE IF r.openable
        THEN [streams EXCEPT !.stdout = OpenFile("&>", "w"), !.stderr = STDOUT]
        ELSE streams

\* CommandExecutor._setup_redirects
RECURSIVE SetupRedirectsFrom(_, _)
SetupRedirectsFrom(streams, redirects) ==
    IF redirects = <<>> THEN streams
    ELSE SetupRedirectsFrom(SetupRedirect(streams, Head(redirects)),
                            Tail(redirects))

SetupRedirects(redirects) ==
    SetupRedirectsFrom([stdin |-> Inherit, stdout |-> Inherit,
                        stderr |-> Inherit], redirects)

\* `if s and s != subprocess.PIPE: s.close()`: None is false; a file closes;
\* the integers STDOUT (-2) and DEVNULL (-3) are true, differ from PIPE (-1)
\* and have no close()
CloseStream(s) ==
    IF s.kind = "None" THEN ""
    ELSE IF s.kind = "PIPE" THEN ""
    ELSE IF s.kind = "file" THEN ""
    ELSE "AttributeError"

\* The finally clause of execute, entered with the pending return value or
\* exception: an exception raised by a close() replaces either.
Finally(streams, ret, exc) ==
    IF CloseStream(streams.stdin) # ""
        THEN [ret |-> None, exc |-> CloseStream(streams.stdin)]
    ELSE IF CloseStream(streams.stdout) # ""
        THEN [ret |-> None, exc |-> CloseStream(streams.stdout)]
    ELSE IF CloseStream(streams.stderr) # ""
        THEN [ret |-> None, exc |-> CloseStream(streams.stderr)]
    ELSE [ret |-> ret, exc |-> exc]

\* the exception classes that derive from Exception
IsException(e) == e \notin {"", "KeyboardInterrupt"}

\* no execute call yet
ExIdle ==
    [pc |-> "idle", command |-> <<>>, background |-> FALSE, redirects |-> <<>>,
     launch |-> "", streams |-> SetupRedirects(<<>>), spawned |-> FALSE,
     pid |-> 0, waited |-> FALSE, interrupts |-> 0, forwarded |-> 0,
     ret |-> None, exc |-> ""]

\* The record of an execute_with_resources or get_process_stats call: the
\* pid, what was returned or raised, the constraints applied, the exception
\* that ended the constraint block, and whether the process had gone by the
\* end of the call.
NoOutcome ==
    [op |-> "init", pid |-> 0, ret |-> None, exc |-> "", applied |-> {},
     fault |-> "", gone |-> FALSE]

\* CommandExecutor.__init__, and a system on which it has spawned nothing
ExecInit ==
    /\ ex = ExIdle
    /\ procs = [p \in Pids |-> "none"]
    /\ next_pid = 1
    /\ processes = {}
    /\ outcome = NoOutcome

\* execute leaves through its finally clause
ExDone(e, ret, exc) ==
    [e EXCEPT !.pc = "done",
              !.ret = Finally(e.streams, ret, exc).ret,
              !.exc = Finally(e.streams, ret, exc).exc]

\* CommandExecutor.execute up to the return of a background launch, the
\* failure of the launch, or the first process.wait() of a foreground launch.
execute(cmd) ==
    LET e == [ExIdle EXCEPT !.command = cmd.command,
                            !.background = cmd.background,
                            !.redirects = cmd.redirects,
                            !.launch = cmd.launch,
                            !.streams = SetupRedirects(cmd.redirects)]
    IN  IF cmd.launch # "ok"
          THEN /\ ex' = ExDone(e, None, "")
               /\ UNCHANGED <<procs, next_pid, processes>>
          ELSE /\ procs' = [procs EXCEPT ![next_pid] = "running"]
               /\ next_pid' = next_pid + 1
               /\ processes' = processes \cup {next_pid}
               /\ IF cmd.background
                    THEN ex' = ExDone([e EXCEPT !.spawned = TRUE,
                                                !.pid = next_pid],
                                      Some(next_pid), "")
                    ELSE ex' = [e EXCEPT !.spawned = TRUE, !.pid = next_pid,
                                         !.pc = "wait1", !.waited = TRUE]

\* process.wait() returns once the child has exited; execute returns None
wait_returns ==
    /\ ex.pc \in {"wait1", "wait2"}
    /\ procs[ex.pid] = "exited"
    /\ ex' = ExDone(ex, None, "")
    /\ UNCHANGED <<procs, next_pid, processes>>

\* KeyboardInterrupt raised in a process.wait().  In the first it is caught:
\* os.killpg sends SIGINT to the child's group and process.wait() is called
\* again.  In the second no handler matches (KeyboardInterrupt is no
\* Exception), so it leaves execute through the finally clause.
wait_interrupted ==
    /\ ex.pc \in {"wait1", "wait2"}
    /\ IF ex.pc = "wait1"
         THEN ex' = [ex EXCEPT !.pc = "wait2",
                               !.interrupts = @ + 1, !.forwarded = @ + 1]
         ELSE ex' = ExDone([ex EXCEPT !.interrupts = @ + 1],
                           None, "KeyboardInterrupt")
    /\ UNCHANGED <<procs, next_pid, processes>>

\* a spawned process exits, by itself or on a signal
process_exits(pid) ==
    /\ procs[pid] = "running"
    /\ procs' = [procs EXCEPT ![pid] = "exited"]
    /\ UNCHANGED <<next_pid, processes>>

\* resources: cores, memory and priority, each absent (0, "") or given
ResourceArgs == [cores : {0, 1, 3}, memory : {0, 1}, priority : {"", "low"}]

\* psutil.cpu_count()
CpuCounts == {2}

\* what each psutil call of execute_with_resources does
PsutilFaults == {"", "NoSuchProcess", "AccessDenied"}
ConstraintFaults ==
    [process : PsutilFaults, affinity : PsutilFaults, rlimit : PsutilFaults,
     nice : PsutilFaults]

SwallowedNoSuchProcessOnly(e) == e = "NoSuchProcess"

\* except psutil.NoSuchProcess: pass / except Exception: warning
Swallowed(e) == e = "NoSuchProcess" \/ IsException(e)

\* The try block of execute_with_resources: the constraints applied and the
\* exception that ends the block.  A failing rlimit is caught inside the
\* block, which goes on to the priority.
ApplyConstraints(resources, cpu_count, f) ==
    LET affinity == resources.cores # 0 /\ resources.cores <= cpu_count
        memory == resources.memory # 0
        nice == resources.priority # ""
        a1 == IF affinity /\ f.affinity = "" THEN {"affinity"} ELSE {}
        a2 == IF memory /\ f.rlimit = "" THEN {"memory"} ELSE {}
        a3 == IF nice /\ f.nice = "" THEN {"priority"} ELSE {}
    IN  IF f.process # "" THEN [applied |-> {}, fault |-> f.process]
        ELSE IF affinity /\ f.affinity # ""
            THEN [applied |-> {}, fault |-> f.affinity]
        ELSE IF nice /\ f.nice # ""
            THEN [applied |-> a1 \cup a2, fault |-> f.nice]
        ELSE [applied |-> a1 \cup a2 \cup a3, fault |-> ""]

\* CommandExecutor.execute_with_resources.  Popen is called before the try
\* block, so a failed launch raises.  A psutil call raises NoSuchProcess
\* when the process has exited.
execute_with_resources(launch, resources, cpu_count, f) ==
    IF launch # "ok"
      THEN /\ outcome' = [NoOutcome EXCEPT !.op = "execute_with_resources",
                                           !.exc = launch]
           /\ UNCHANGED <<procs, next_pid, processes>>
      ELSE LET c == ApplyConstraints(resources, cpu_count, f)
               gone == c.fault = "NoSuchProcess"
           IN  /\ procs' = [procs EXCEPT ![next_pid] =
                               IF gone THEN "exited" ELSE "running"]
               /\ next_pid' = next_pid + 1
               /\ outcome' =
                    [op |-> "execute_with_resources", pid |-> next_pid,
                     ret |-> IF c.fault = "" \/ Swallowed(c.fault)
                               THEN Some(next_pid) ELSE None,
                     exc |-> IF c.fault = "" \/ Swallowed(c.fault)
                               THEN "" ELSE c.fault,
                     applied |-> c.applied, fault |-> c.fault,
                     gone |-> gone]
               /\ UNCHANGED processes

\* the psutil calls of CommandExecutor.get_process_stats, in order
ExecutorCollects ==
    <<"Process", "cpu_percent", "memory_info", "io_counters",
      "memory_percent", "num_threads", "status", "create_time">>

\* the psutil calls of ResourceMonitor.get_process_stats inside the outer try
\* only, in order
MonitorCollects ==
    <<"Process", "name", "status", "cpu_percent", "memory_info",
      "memory_percent", "num_threads", "create_time">>

\* the psutil calls of ResourceMonitor.get_process_stats that are each inside
\* a bare `except:`, in order
MonitorOptional == <<"cpu_affinity", "io_counters", "open_files", "connections">>

\* The first psutil call that finds the process gone: the first call if the
\* pid does not exist, call number exit_before if the process exits during
\* the collection (0: it does not), none otherwise.
GoneFrom(pid, exit_before, calls) ==
    IF procs[pid] # "running" THEN 1
    ELSE IF exit_before = 0 THEN calls + 1
    ELSE exit_before

\* the process table after a collection during which the process may exit
ProcsAfter(pid, exit_before) ==
    IF procs[pid] = "running" /\ exit_before # 0
        THEN [procs EXCEPT ![pid] = "exited"]
        ELSE procs

\* CommandExecutor.get_process_stats
executor_get_process_stats(pid, exit_before) ==
    LET calls == Len(ExecutorCollects)
        from == GoneFrom(pid, exit_before, calls)
    IN  /\ exit_before <= calls
        /\ procs' = ProcsAfter(pid, exit_before)
        /\ outcome' =
            [NoOutcome EXCEPT
                !.op = "executor.get_process_stats",
                !.pid = pid,
                !.ret = IF from <= calls THEN None
                        ELSE Some([pid |-> pid, optional |-> {"io_counters"},
                                   open_files |-> 1, connections |-> 1]),
                !.gone = procs'[pid] # "running"]
        /\ UNCHANGED <<next_pid, processes>>

\* the optional keys of the stats of ResourceMonitor.get_process_stats whose
\* psutil call came before the process was gone
OptionalKeys(from) ==
    {MonitorOptional[i] : i \in {j \in 1..2 : Len(MonitorCollects) + j < from}}

\* ResourceMonitor.get_process_stats.  NoSuchProcess from a mandatory call
\* reaches the outer handler; from an optional call it is swallowed by the
\* bare except, which drops the key or sets it to 0.
monitor_get_process_stats(pid, exit_before) ==
    LET calls == Len(MonitorCollects) + Len(MonitorOptional)
        from == GoneFrom(pid, exit_before, calls)
    IN  /\ exit_before <= calls
        /\ procs' = ProcsAfter(pid, exit_before)
        /\ outcome' =
            [NoOutcome EXCEPT
                !.op = "monitor.get_process_stats",
                !.pid = pid,
                !.ret = IF from <= Len(MonitorCollects) THEN None
                        ELSE Some([pid |-> pid,
                                   optional |-> OptionalKeys(from),
                                   open_files |->
                                     IF Len(MonitorCollects) + 3 < from
                                       THEN 1 ELSE 0,
                                   connections |->
                                     IF Len(MonitorCollects) + 4 < from
                                       THEN 1 ELSE 0]),
                !.gone = procs'[pid] # "running"]
        /\ UNCHANGED <<next_pid, processes>>

(***************************************************************************)
(* CommandParser (src/parser.py) and the dispatch of HPCShell              *)
(* (src/shell.py).  A string is the sequence of its characters.  The       *)
(* lines typed at the shell's prompt are written without quotes or         *)
(* backslashes; the lines given to the parser on its own have them.        *)
(***************************************************************************)
Characters == {"f", "g", " ", "|", ">", "&"}
Whitespace == {" "}
Quotes == {"'", "\""}
Escape == "\\"

\* the lines typed at the prompt
Lines == UNION {[1..n -> Characters] : n \in 0..MaxLine}

\* the built-in commands that can be spelled with Characters, of self.commands
Builtins == {<<"f", "g">>}

RECURSIVE LStrip(_)
LStrip(s) ==
    IF s # <<>> /\ Head(s) \in Whitespace THEN LStrip(Tail(s)) ELSE s

RECURSIVE RStrip(_)
RStrip(s) ==
    IF s # <<>> /\ s[Len(s)] \in Whitespace
        THEN RStrip(SubSeq(s, 1, Len(s) - 1))
        ELSE s

\* str.strip()
Strip(s) == RStrip(LStrip(s))

\* The loop of _split_pipes: a "|" closes the current part if it has any
\* character, white space included, and the part is stripped afterwards.
\* quote_char after the character at position i is read: a quote that does
\* not follow a backslash opens a quoted region, or closes the one opened by
\* the same character; "" is not in quotes
QuoteCharAnyCloses(line, i, quote_char) ==
    IF line[i] \in Quotes /\ (i = 1 \/ line[i - 1] # Escape)
        THEN IF quote_char = "" THEN line[i] ELSE ""
        ELSE quote_char

QuoteChar(line, i, quote_char) ==
    IF line[i] \in Quotes /\ (i = 1 \/ line[i - 1] # Escape)
        THEN IF quote_char = "" THEN line[i]
             ELSE IF line[i] = quote_char THEN ""
             ELSE quote_char
        ELSE quote_char

\* The loop of _split_pipes from position i: a "|" outside quotes closes the
\* current part if it has any character, white space included, and the part
\* is stripped afterwards.
RECURSIVE SplitPipesFrom(_, _, _, _, _)
SplitPipesFrom(line, i, parts, current, quote_char) ==
    IF i > Len(line)
        THEN IF current # <<>> THEN Append(parts, Strip(current)) ELSE parts
    ELSE IF line[i] = "|" /\ QuoteChar(line, i, quote_char) = ""
        THEN IF current # <<>>
                THEN SplitPipesFrom(line, i + 1, Append(parts, Strip(current)),
                                    <<>>, QuoteChar(line, i, quote_char))
                ELSE SplitPipesFrom(line, i + 1, parts, current,
                                    QuoteChar(line, i, quote_char))
    ELSE SplitPipesFrom(line, i + 1, parts, Append(current, line[i]),
                        QuoteChar(line, i, quote_char))

\* CommandParser._split_pipes
SplitPipes(line) == SplitPipesFrom(line, 1, <<>>, <<>>, "")

\* the length of the match of (>>?|<|2>|&>) at position i, or 0
MatchLen(s, i) ==
    IF s[i] = ">" THEN (IF i < Len(s) /\ s[i + 1] = ">" THEN 2 ELSE 1)
    ELSE IF s[i] = "<" THEN 1
    ELSE IF s[i] \in {"2", "&"} /\ i < Len(s) /\ s[i + 1] = ">" THEN 2
    ELSE 0

\* match.group(1)
MatchType(s, i) ==
    IF MatchLen(s, i) = 1 THEN s[i]
    ELSE IF s[i] = ">" THEN ">>"
    ELSE IF s[i] = "2" THEN "2>"
    ELSE "&>"

\* redirect_pattern.finditer(cmd_str): leftmost matches that do not overlap
RECURSIVE RedirectMatchesFrom(_, _)
RedirectMatchesFrom(s, i) ==
    IF i > Len(s) THEN <<>>
    ELSE IF MatchLen(s, i) = 0 THEN RedirectMatchesFrom(s, i + 1)
    ELSE <<[type |-> MatchType(s, i), end |-> i + MatchLen(s, i) - 1]>>
            \o RedirectMatchesFrom(s, i + MatchLen(s, i))

RedirectMatches(s) == RedirectMatchesFrom(s, 1)

\* redirect_pattern.sub('', cmd_str)
RECURSIVE RemoveMatchesFrom(_, _)
RemoveMatchesFrom(s, i) ==
    IF i > Len(s) THEN <<>>
    ELSE IF MatchLen(s, i) = 0 THEN <<s[i]>> \o RemoveMatchesFrom(s, i + 1)
    ELSE RemoveMatchesFrom(s, i + MatchLen(s, i))

\* str.split()
RECURSIVE TokensFrom(_, _, _)
TokensFrom(s, tokens, current) ==
    IF s = <<>>
        THEN IF current # <<>> THEN Append(tokens, current) ELSE tokens
    ELSE IF Head(s) \in Whitespace
        THEN TokensFrom(Tail(s),
                        IF current # <<>> THEN Append(tokens, current)
                                          ELSE tokens,
                        <<>>)
    ELSE TokensFrom(Tail(s), tokens, Append(current, Head(s)))

Tokens(s) == TokensFrom(s, <<>>, <<>>)

\* shlex in POSIX mode splitting at white space only: state is "a" outside
\* quotes, the quote character inside quotes, the backslash after a
\* backslash.  A token is emitted if it has a character or had quotes.  Inside
\* double quotes a backslash escapes only a double quote and a backslash;
\* inside single quotes it is an ordinary character.  The end of the text
\* inside quotes or after a backslash raises ValueError (ok is FALSE).
RECURSIVE ShlexFrom(_, _, _, _, _, _)
ShlexFrom(s, state, escapedstate, quoted, token, tokens) ==
    LET emitted == IF token # <<>> \/ quoted THEN Append(tokens, token)
                                             ELSE tokens
    IN  IF s = <<>>
          THEN IF state = "a" THEN [ok |-> TRUE, tokens |-> emitted]
                              ELSE [ok |-> FALSE, tokens |-> <<>>]
        ELSE IF state = "a"
          THEN IF Head(s) \in Whitespace
                  THEN ShlexFrom(Tail(s), "a", "a", FALSE, <<>>, emitted)
               ELSE IF Head(s) \in Quotes
                  THEN ShlexFrom(Tail(s), Head(s), escapedstate, TRUE, token,
                                 tokens)
               ELSE IF Head(s) = Escape
                  THEN ShlexFrom(Tail(s), Escape, "a", quoted, token, tokens)
               ELSE ShlexFrom(Tail(s), "a", escapedstate, quoted,
                              Append(token, Head(s)), tokens)
        ELSE IF state \in Quotes
          THEN IF Head(s) = state
                  THEN ShlexFrom(Tail(s), "a", escapedstate, quoted, token,
                                 tokens)
               ELSE IF Head(s) = Escape /\ state = "\""
                  THEN ShlexFrom(Tail(s), Escape, state, quoted, token, tokens)
               ELSE ShlexFrom(Tail(s), state, escapedstate, quoted,
                              Append(token, Head(s)), tokens)
        ELSE ShlexFrom(Tail(s), escapedstate, escapedstate, quoted,
                       IF escapedstate \in Quotes /\ Head(s) # Escape
                            /\ Head(s) # escapedstate
                         THEN token \o <<Escape, Head(s)>>
                         ELSE Append(token, Head(s)),
                       tokens)

\* shlex.split(s)
ShlexSplit(s) == ShlexFrom(s, "a", "a", FALSE, <<>>, <<>>)

\* s.replace(sub, ''): every occurrence, left to right; nothing for an empty
\* sub
RECURSIVE Remove(_, _)
Remove(s, sub) ==
    IF s = <<>> \/ sub = <<>> THEN s
    ELSE IF Len(s) >= Len(sub) /\ SubSeq(s, 1, Len(sub)) = sub
        THEN Remove(SubSeq(s, Len(sub) + 1, Len(s)), sub)
    ELSE <<Head(s)>> \o Remove(Tail(s), sub)

\* redirects[redirect_type] = filename: a key already present keeps its place
DictSet(d, type, filename) ==
    IF \E i \in DOMAIN d : d[i].type = type
        THEN [i \in DOMAIN d |->
                IF d[i].type = type
                    THEN [type |-> type, filename |-> filename]
                    ELSE d[i]]
        ELSE Append(d, [type |-> type, filename |-> filename])

\* for match in reversed(redirect_matches): the file name is the first token
\* after the operator, if there is one and shlex.split raises nothing
RECURSIVE RedirectsOf(_, _, _, _)
RedirectsOf(cmd_str, matches, k, redirects) ==
    IF k = 0 THEN redirects
    ELSE LET rest == Strip(SubSeq(cmd_str, matches[k].end + 1, Len(cmd_str)))
         IN  RedirectsOf(cmd_str, matches, k - 1,
                IF rest # <<>> /\ ShlexSplit(rest).ok
                    THEN DictSet(redirects, matches[k].type,
                                 Head(ShlexSplit(rest).tokens))
                    ELSE redirects)

\* for filename in redirects.values(): remaining.replace(filename, '')
RECURSIVE RemoveFilenames(_, _)
RemoveFilenames(remaining, redirects) ==
    IF redirects = <<>> THEN remaining
    ELSE RemoveFilenames(Remove(remaining, Head(redirects).filename),
                         Tail(redirects))

\* CommandParser._parse_single_command
ParseSingleCommand(cmd_str) ==
    LET matches == RedirectMatches(cmd_str)
        redirects == RedirectsOf(cmd_str, matches, Len(matches), <<>>)
        remaining == IF matches # <<>>
                        THEN RemoveFilenames(RemoveMatchesFrom(cmd_str, 1),
                                             redirects)
                        ELSE cmd_str
        tokens == IF ShlexSplit(remaining).ok
                    THEN ShlexSplit(remaining).tokens
                    ELSE Tokens(remaining)
    IN  [command |-> IF tokens = <<>> THEN <<>> ELSE Head(tokens),
         args |-> IF tokens = <<>> THEN <<>> ELSE Tail(tokens),
         redirects |-> redirects,
         background |-> FALSE, pipe_from |-> FALSE, pipe_to |-> FALSE,
         raw |-> cmd_str]

BackgroundOfEveryStage(background, i, n) == background

\* cmd['background'] = background and (i == len(pipe_parts) - 1)
BackgroundOf(background, i, n) == background /\ i = n

\* CommandParser.parse
Parse(input) ==
    LET stripped == Strip(input)
        background == stripped # <<>> /\ stripped[Len(stripped)] = "&"
        line == IF background
                    THEN Strip(SubSeq(stripped, 1, Len(stripped) - 1))
                    ELSE stripped
        pipe_parts == SplitPipes(line)
    IN  IF stripped = <<>> THEN <<>>
        ELSE [i \in 1..Len(pipe_parts) |->
                [ParseSingleCommand(pipe_parts[i]) EXCEPT
                    !.background = BackgroundOf(background, i,
                                                Len(pipe_parts)),
                    !.pipe_from = i > 1,
                    !.pipe_to = i < Len(pipe_parts)]]

\* the characters of the lines given to the parser on its own
ParseCharacters == Characters \cup Quotes \cup {Escape}
ParseLines == UNION {[1..n -> ParseCharacters] : n \in 0..MaxParseLine}

\* no parser call made yet
NoResult == [op |-> "", ret |-> <<>>]

ParseInit ==
    /\ arg = <<>>
    /\ result = NoResult

\* a call of CommandParser.parse
parse(line) ==
    /\ result = NoResult
    /\ arg = line
    /\ result' = [op |-> "parse", ret |-> Parse(line)]
    /\ UNCHANGED arg

\* a call of CommandParser._split_pipes
split_pipes(line) ==
    /\ result = NoResult
    /\ arg = line
    /\ result' = [op |-> "_split_pipes", ret |-> SplitPipes(line)]
    /\ UNCHANGED arg

\* BuiltinCommands.is_builtin
IsBuiltin(command) == command \in Builtins

\* HPCShell at its prompt
ShellIdle == [commands |-> <<>>, builtin |-> <<>>]

ShellInit == sh = ShellIdle

\* HPCShell.process_command up to the loop over the parsed stages
process_command(line) ==
    /\ sh.commands = <<>>
    /\ ex.pc \in {"idle", "done"}
    /\ sh' = [sh EXCEPT !.commands = Parse(line)]

\* the descriptor as execute sees it, with the outcome of each open() and of
\* Popen
AsExecuted(cmd, openable, launch) ==
    [command |-> cmd.command, background |-> cmd.background,
     redirects |-> [i \in DOMAIN cmd.redirects |->
                      [type |-> cmd.redirects[i].type,
                       openable |-> openable[i]]],
     launch |-> launch]

\* what Popen does with [command] + args: an empty program name is not found
\* or not executable
LaunchOutcomesOf(command) ==
    IF command = <<>> THEN {"FileNotFoundError", "PermissionError"}
    ELSE LaunchOutcomes

\* An exception that leaves execute ends process_command: `except Exception`
\* prints it and the stages left are not dispatched.
StagesLeft(commands, exc) == IF exc # "" THEN <<>> ELSE Tail(commands)

\* HPCShell._execute_single_command on the next stage
execute_single_command ==
    LET cmd == Head(sh.commands)
    IN  /\ sh.commands # <<>>
        /\ ex.pc \in {"idle", "done"}
        /\ IF IsBuiltin(cmd.command)
             THEN /\ sh' = [commands |-> Tail(sh.commands),
                            builtin |-> cmd.command]
                  /\ UNCHANGED <<ex, procs, next_pid, processes>>
             ELSE /\ next_pid <= MaxPids
                  /\ \E openable \in [DOMAIN cmd.redirects -> BOOLEAN],
                        launch \in LaunchOutcomesOf(cmd.command) :
                        execute(AsExecuted(cmd, openable, launch))
                  /\ sh' = [sh EXCEPT !.commands =
                              IF ex'.pc = "done"
                                THEN StagesLeft(sh.commands, ex'.exc)
                                ELSE sh.commands]

\* the foreground child has exited: execute returns (or raises in its finally
\* clause) and the loop of process_command goes on
stage_returns ==
    /\ wait_returns
    /\ sh' = [sh EXCEPT !.commands = StagesLeft(sh.commands, ex'.exc)]

\* the hosts the monitor runs on: with or without disk / network counters
Platforms == [disk : BOOLEAN, net : BOOLEAN]

\* no JobQueue method entered
WriterIdle == [op |-> "", pc |-> "idle", job_id |-> 0, queue |-> ""]

\* no read made yet
NothingSeen == [op |-> "", queue |-> "", ids |-> <<>>, jobs |-> <<>>]

\* no built-in command executed yet
NoBuiltin ==
    [command |-> "", job_id |-> 0, pid |-> 0, delivered |-> FALSE,
     stats |-> None, exc |-> ""]

\* HPCShell.__init__: the job table, and no second thread
LateInit ==
    /\ writer = WriterIdle
    /\ seen = NothingSeen
    /\ shell_jobs = <<>>
    /\ shell_next_job_id = 1
    /\ builtin = NoBuiltin

ExtInit ==
    /\ MonitorInit
    /\ platform = [disk |-> TRUE, net |-> TRUE]
    /\ ExecInit
    /\ ShellInit
    /\ ParseInit
    /\ LateInit

(***************************************************************************)
(* Spec: the Job Queue under every sequence of calls.                      *)
(***************************************************************************)
Init ==
    /\ QueueInit
    /\ phase = "open"
    /\ cur = None
    /\ dequeued = <<>>
    /\ ExtInit

SubmitJob ==
    /\ next_job_id <= MaxJobs
    /\ \E q \in QueueArgs, p \in PriorityArgs :
        submit_job(q, p) /\ UNCHANGED <<script_vars, ext_vars>>

GetNextJob ==
    \E q \in QueueArgs :
        get_next_job(q) /\ UNCHANGED <<script_vars, ext_vars>>

StartJob ==
    \E id \in IdArgs : start_job(id) /\ UNCHANGED <<script_vars, ext_vars>>

CompleteJob ==
    \E id \in IdArgs, rc \in ReturnCodes :
        complete_job(id, rc) /\ UNCHANGED <<script_vars, ext_vars>>

CancelJob ==
    \E id \in IdArgs : cancel_job(id) /\ UNCHANGED <<script_vars, ext_vars>>

Next ==
    \/ SubmitJob
    \/ GetNextJob
    \/ StartJob
    \/ CompleteJob
    \/ CancelJob

Spec == Init /\ [][Next]_vars

(***************************************************************************)
(* DrainSpec: jobs are submitted (to any queue) and then a dispatcher       *)
(* serves one queue: repeatedly, it takes the job get_next_job returns,    *)
(* starts it and completes it.                                             *)
(***************************************************************************)
DrainQueue == "default"

DrainInit ==
    /\ QueueInit
    /\ phase = "submit"
    /\ cur = None
    /\ dequeued = <<>>
    /\ ExtInit

DrainSubmit ==
    /\ phase = "submit"
    /\ next_job_id <= MaxDrainJobs
    /\ \E q \in QueueArgs, p \in PriorityArgs :
        submit_job(q, p) /\ UNCHANGED <<script_vars, ext_vars>>

DrainBegin ==
    /\ phase = "submit"
    /\ next_job_id > 1
    /\ phase' = "drain"
    /\ UNCHANGED <<queue_vars, cur, dequeued, ext_vars>>

DrainTake ==
    /\ phase = "drain"
    /\ cur = None
    /\ get_next_job(DrainQueue)
    /\ cur' = last'.ret
    /\ dequeued' = IF last'.ret = None THEN dequeued
                   ELSE Append(dequeued, last'.ret[1])
    /\ UNCHANGED <<phase, ext_vars>>

DrainStart ==
    /\ phase = "drain"
    /\ cur # None
    /\ jobs[cur[1]].status = "queued"
    /\ start_job(cur[1])
    /\ UNCHANGED <<script_vars, ext_vars>>

DrainComplete ==
    /\ phase = "drain"
    /\ cur # None
    /\ jobs[cur[1]].status = "running"
    /\ \E rc \in ReturnCodes : complete_job(cur[1], rc)
    /\ cur' = None
    /\ UNCHANGED <<phase, dequeued, ext_vars>>

DrainNext ==
    \/ DrainSubmit
    \/ DrainBegin
    \/ DrainTake
    \/ DrainStart
    \/ DrainComplete

DrainSpec == DrainInit /\ [][DrainNext]_vars

(***************************************************************************)
(* MonitorSpec: the Resource Monitor under every sequence of               *)
(* get_system_stats and get_history calls.                                 *)
(***************************************************************************)
MonitorSpecInit ==
    /\ QueueInit
    /\ phase = "open"
    /\ cur = None
    /\ dequeued = <<>>
    /\ MonitorInit
    /\ platform \in Platforms
    /\ ExecInit
    /\ ShellInit
    /\ ParseInit
    /\ LateInit

GetSystemStats ==
    /\ taken < MaxSamples
    /\ \E r \in SystemReadings, t \in TimeReadings : get_system_stats(r, t)
    /\ IF mon'.exc = ""
         THEN /\ inserted' = Recorded(inserted, mon'.ret)
              /\ taken' = taken + 1
         ELSE UNCHANGED <<inserted, taken>>
    /\ UNCHANGED <<platform, loop, job_vars, exec_vars, shell_vars,
                 parse_vars, late_vars>>

GetHistory ==
    /\ \E m \in MetricArgs, d \in DurationArgs, t \in TimeReadings :
        get_history(m, d, t)
    /\ UNCHANGED <<platform, inserted, taken, loop, job_vars, exec_vars, shell_vars,
                 parse_vars, late_vars>>

MonitorNext ==
    \/ GetSystemStats
    \/ GetHistory

MonitorSpec == MonitorSpecInit /\ [][MonitorNext]_vars

(***************************************************************************)
(* LoopSpec: monitor_continuously with a caller that may interrupt it.     *)
(* The loop's own steps are weakly fair: the interpreter keeps running     *)
(* the thread, psutil reads and time.sleep return, and the callback        *)
(* returns.  The interrupt and a new call are the environment's choice.    *)
(***************************************************************************)
LoopInit ==
    /\ QueueInit
    /\ phase = "open"
    /\ cur = None
    /\ dequeued = <<>>
    /\ MonitorInit
    /\ platform \in Platforms
    /\ ExecInit
    /\ ShellInit
    /\ ParseInit
    /\ LateInit

LoopFrame == UNCHANGED <<history, last_net_io, last_disk_io, clock, mon>>

MonitorContinuously ==
    /\ \E callback \in BOOLEAN : monitor_continuously(callback)
    /\ LoopFrame
    /\ UNCHANGED <<platform, inserted, taken, job_vars, exec_vars, shell_vars,
                 parse_vars, late_vars>>

LoopSample ==
    /\ \E r \in SystemReadings, t \in TimeReadings : loop_sample(r, t)
    /\ UNCHANGED <<platform, inserted, taken, job_vars, exec_vars, shell_vars,
                 parse_vars, late_vars>>

LoopCallback ==
    /\ loop_callback
    /\ LoopFrame
    /\ UNCHANGED <<platform, inserted, taken, job_vars, exec_vars, shell_vars,
                 parse_vars, late_vars>>

LoopSleep ==
    /\ loop_sleep
    /\ LoopFrame
    /\ UNCHANGED <<platform, inserted, taken, job_vars, exec_vars, shell_vars,
                 parse_vars, late_vars>>

LoopInterrupt ==
    /\ loop_interrupt
    /\ LoopFrame
    /\ UNCHANGED <<platform, inserted, taken, job_vars, exec_vars, shell_vars,
                 parse_vars, late_vars>>

LoopNext ==
    \/ MonitorContinuously
    \/ LoopSample
    \/ LoopCallback
    \/ LoopSleep
    \/ LoopInterrupt

LoopSpec ==
    /\ LoopInit
    /\ [][LoopNext]_vars
    /\ WF_vars(LoopSample)
    /\ WF_vars(LoopCallback)
    /\ WF_vars(LoopSleep)

(***************************************************************************)
(* ExecSpec: the Executor launching commands, one execute call at a time.  *)
(***************************************************************************)
ExecSpecInit ==
    /\ QueueInit
    /\ phase = "open"
    /\ cur = None
    /\ dequeued = <<>>
    /\ ExtInit

ExecFrame ==
    UNCHANGED <<queue_vars, script_vars, monitor_vars, outcome, shell_vars,
                parse_vars, late_vars>>

Execute ==
    /\ ex.pc \in {"idle", "done"}
    /\ next_pid <= MaxPids
    /\ \E cmd \in Descriptors : execute(cmd)
    /\ ExecFrame

WaitReturns ==
    /\ wait_returns
    /\ ExecFrame

WaitInterrupted ==
    /\ wait_interrupted
    /\ ExecFrame

ProcessExits ==
    /\ \E pid \in Pids : process_exits(pid)
    /\ UNCHANGED ex
    /\ ExecFrame

ExecNext ==
    \/ Execute
    \/ WaitReturns
    \/ WaitInterrupted
    \/ ProcessExits

ExecSpec == ExecSpecInit /\ [][ExecNext]_vars

(***************************************************************************)
(* ProcSpec: processes launched with resource constraints, their           *)
(* statistics collected by the Executor and by the Resource Monitor while  *)
(* they run and exit.                                                      *)
(***************************************************************************)
ProcFrame ==
    UNCHANGED <<queue_vars, script_vars, monitor_vars, ex, shell_vars,
                parse_vars, late_vars>>

ExecuteWithResources ==
    /\ next_pid <= MaxPids
    /\ \E launch \in LaunchOutcomes, resources \in ResourceArgs,
          cpu_count \in CpuCounts, f \in ConstraintFaults :
            execute_with_resources(launch, resources, cpu_count, f)
    /\ ProcFrame

ExecutorGetProcessStats ==
    /\ \E pid \in Pids, exit_before \in 0..Len(ExecutorCollects) :
            executor_get_process_stats(pid, exit_before)
    /\ ProcFrame

MonitorGetProcessStats ==
    /\ \E pid \in Pids,
          exit_before \in 0..(Len(MonitorCollects) + Len(MonitorOptional)) :
            monitor_get_process_stats(pid, exit_before)
    /\ ProcFrame

ProcExits ==
    /\ \E pid \in Pids : process_exits(pid)
    /\ UNCHANGED outcome
    /\ ProcFrame

ProcNext ==
    \/ ExecuteWithResources
    \/ ExecutorGetProcessStats
    \/ MonitorGetProcessStats
    \/ ProcExits

ProcSpec == ExecSpecInit /\ [][ProcNext]_vars

(***************************************************************************)
(* ShellSpec: lines typed at the prompt, parsed and dispatched stage by    *)
(* stage.  The shell replaces the SIGINT handler (src/shell.py:59), so no  *)
(* KeyboardInterrupt is raised while it waits.                             *)
(***************************************************************************)
ShellFrame ==
    UNCHANGED <<queue_vars, script_vars, monitor_vars, outcome, parse_vars, late_vars>>

ProcessCommand ==
    /\ \E line \in Lines : process_command(line)
    /\ UNCHANGED <<ex, procs, next_pid, processes>>
    /\ ShellFrame

ExecuteSingleCommand ==
    /\ execute_single_command
    /\ ShellFrame

StageReturns ==
    /\ stage_returns
    /\ ShellFrame

ChildExits ==
    /\ \E pid \in Pids : process_exits(pid)
    /\ UNCHANGED <<ex, sh>>
    /\ ShellFrame

ShellNext ==
    \/ ProcessCommand
    \/ ExecuteSingleCommand
    \/ StageReturns
    \/ ChildExits

ShellSpec == ExecSpecInit /\ [][ShellNext]_vars

(***************************************************************************)
(* ParseSpec: the parser called once on any line.                          *)
(***************************************************************************)
ParseSpecInit ==
    /\ QueueInit
    /\ phase = "open"
    /\ cur = None
    /\ dequeued = <<>>
    /\ MonitorInit
    /\ platform = [disk |-> TRUE, net |-> TRUE]
    /\ ExecInit
    /\ ShellInit
    /\ LateInit
    /\ arg \in ParseLines
    /\ result = NoResult

ParseFrame ==
    UNCHANGED <<queue_vars, script_vars, monitor_vars, exec_vars, shell_vars,
                late_vars>>

ParseLine ==
    /\ parse(arg)
    /\ ParseFrame

SplitLine ==
    /\ split_pipes(arg)
    /\ ParseFrame

ParseNext ==
    \/ ParseLine
    \/ SplitLine

ParseSpec == ParseSpecInit /\ [][ParseNext]_vars

(***************************************************************************)
(* HpcSpec: parse_hpc_options called once on any argument list.  A token   *)
(* is a record: dashes says that it starts with "--", text is what         *)
(* follows the dashes (the whole token when there are none).               *)
(***************************************************************************)
MaxArgs == 3        \* tokens in one argument list

OptionNames ==
    {"cores", "memory", "time", "priority", "queue", "gpu", "nodes"}

Word(text) == [dashes |-> FALSE, text |-> text]

HpcTokens ==
    [dashes : {TRUE}, text : OptionNames \cup {"bogus", ""}]
        \cup {Word(t) : t \in {"4", "x", "2h", "inf"}}

HpcArgLists == UNION {[1..n -> HpcTokens] : n \in 0..MaxArgs}

DefaultOptions ==
    [cores |-> None, memory |-> None, time |-> None,
     priority |-> Word("normal"), queue |-> Word("default"),
     gpu |-> None, nodes |-> Some(1)]

\* int(value): the value, or ValueError
IntOf(value) == IF value = Word("4") THEN Some(4) ELSE None

\* _parse_memory(value): bytes, a plain number counting megabytes; 0 for
\* what is no number; OverflowError for an infinite number
ParseMemory(value) ==
    IF value = Word("4") THEN [exc |-> "", ret |-> 4 * 1024 * 1024]
    ELSE IF value = Word("inf") THEN [exc |-> "OverflowError", ret |-> 0]
    ELSE [exc |-> "", ret |-> 0]

\* _parse_time(value): seconds, with the units s, m, h, d
ParseTime(value) ==
    IF value = Word("4") THEN [exc |-> "", ret |-> 4]
    ELSE IF value = Word("2h") THEN [exc |-> "", ret |-> 2 * 3600]
    ELSE IF value = Word("inf") THEN [exc |-> "OverflowError", ret |-> 0]
    ELSE [exc |-> "", ret |-> 0]

\* the conversion of an option's value: what it raises
ValueExc(option, value) ==
    IF option = "memory" THEN ParseMemory(value).exc
    ELSE IF option = "time" THEN ParseTime(value).exc
    ELSE ""

\* options[option] = <converted value>
SetOption(options, option, value) ==
    IF option \in {"cores", "nodes", "gpu"}
    THEN IF IntOf(value) = None THEN options
         ELSE [options EXCEPT ![option] = IntOf(value)]
    ELSE IF option = "memory"
    THEN [options EXCEPT !.memory = Some(ParseMemory(value).ret)]
    ELSE IF option = "time"
    THEN [options EXCEPT !.time = Some(ParseTime(value).ret)]
    ELSE IF option \in {"priority", "queue"}
    THEN [options EXCEPT ![option] = value]
    ELSE options

ConsumesAnyName(args, i) == args[i].dashes /\ i < Len(args)

\* arg.startswith('--') and option in options and i + 1 < len(args)
Consumes(args, i) ==
    args[i].dashes /\ args[i].text \in OptionNames /\ i < Len(args)

RECURSIVE ParseHpcFrom(_, _, _, _)
ParseHpcFrom(args, i, options, remaining_args) ==
    IF i > Len(args)
    THEN [exc |-> "", options |-> options, args |-> remaining_args]
    ELSE IF Consumes(args, i)
    THEN IF ValueExc(args[i].text, args[i + 1]) # ""
         THEN [exc |-> ValueExc(args[i].text, args[i + 1]),
               options |-> options, args |-> remaining_args]
         ELSE ParseHpcFrom(args, i + 2,
                           SetOption(options, args[i].text, args[i + 1]),
                           remaining_args)
    ELSE ParseHpcFrom(args, i + 1, options, Append(remaining_args, args[i]))

ParseHpcOptions(args) == ParseHpcFrom(args, 1, DefaultOptions, <<>>)

\* a call of CommandParser.parse_hpc_options
parse_hpc_options(args) ==
    /\ result = NoResult
    /\ result' = [op |-> "parse_hpc_options", ret |-> ParseHpcOptions(args)]
    /\ UNCHANGED arg

HpcSpecInit ==
    /\ QueueInit
    /\ phase = "open"
    /\ cur = None
    /\ dequeued = <<>>
    /\ MonitorInit
    /\ platform = [disk |-> TRUE, net |-> TRUE]
    /\ ExecInit
    /\ ShellInit
    /\ LateInit
    /\ arg \in HpcArgLists
    /\ result = NoResult

ParseHpc ==
    /\ parse_hpc_options(arg)
    /\ ParseFrame

HpcSpec == HpcSpecInit /\ [][ParseHpc]_vars

(***************************************************************************)
(* ConcSpec: a writer thread inside the JobQueue methods, one statement    *)
(* group at a time, and a reader thread calling the reporting methods in   *)
(* between.  JobQueue takes no lock, so the reader's call can run between  *)
(* any two statements of the writer's.                                     *)
(***************************************************************************)
ConcPriorities == {"low", "High"}
ConcQueues == {"default"}

\* submit_job up to self.jobs[self.next_job_id] = job
submit_job_store(queue, priority) ==
    /\ writer.pc = "idle"
    /\ \E t \in TimeReadings :
        LET id == next_job_id
            job == NewJob(id, PriorityEnum(priority), queue, t)
        IN  /\ clock' = t
            /\ jobs' = [i \in DOMAIN jobs \cup {id} |->
                            IF i = id THEN job ELSE jobs[i]]
            /\ writer' = [op |-> "submit_job", pc |-> "append",
                          job_id |-> id, queue |-> queue]
    /\ UNCHANGED <<queues, next_job_id, last, issued, completed, seen>>

\* self.queues[queue].append(self.next_job_id)
submit_job_append ==
    /\ writer.pc = "append"
    /\ queues' = AppendToQueue(queues, writer.queue, writer.job_id)
    /\ writer' = [writer EXCEPT !.pc = "sort"]
    /\ UNCHANGED <<jobs, next_job_id, clock, last, issued, completed, seen>>

\* self._sort_queue(queue)
submit_job_sort ==
    /\ writer.pc = "sort"
    /\ queues' = SortQueue(jobs, queues, writer.queue)
    /\ writer' = [writer EXCEPT !.pc = "count"]
    /\ UNCHANGED <<jobs, next_job_id, clock, last, issued, completed, seen>>

\* self.next_job_id += 1; return job_id
submit_job_return ==
    /\ writer.pc = "count"
    /\ next_job_id' = NextId(next_job_id)
    /\ last' = Call("submit_job", writer.job_id, writer.queue,
                    writer.job_id, "")
    /\ issued' = Append(issued, writer.job_id)
    /\ writer' = WriterIdle
    /\ UNCHANGED <<jobs, queues, clock, completed, seen>>

\* complete_job up to job.return_code = return_code
complete_job_mark(job_id, return_code) ==
    /\ writer.pc = "idle"
    /\ IF job_id \notin DOMAIN jobs
         THEN /\ last' = Call("complete_job", job_id, "", FALSE, "")
              /\ UNCHANGED <<jobs, clock, writer>>
         ELSE \E t \in TimeReadings :
              /\ clock' = t
              /\ jobs' = [jobs EXCEPT ![job_id].status = "completed",
                                      ![job_id].completed_at = Some(t),
                                      ![job_id].return_code = Some(return_code)]
              /\ writer' = [op |-> "complete_job", pc |-> "remove",
                            job_id |-> job_id, queue |-> ""]
              /\ UNCHANGED last
    /\ UNCHANGED <<queues, next_job_id, issued, completed, seen>>

\* cancel_job up to job.status = 'cancelled'
cancel_job_mark(job_id) ==
    /\ writer.pc = "idle"
    /\ IF job_id \notin DOMAIN jobs \/ jobs[job_id].status \in NotCancellable
         THEN /\ last' = Call("cancel_job", job_id, "", FALSE, "")
              /\ UNCHANGED <<jobs, writer>>
         ELSE /\ jobs' = [jobs EXCEPT ![job_id].status = "cancelled"]
              /\ writer' = [op |-> "cancel_job", pc |-> "remove",
                            job_id |-> job_id, queue |-> ""]
              /\ UNCHANGED last
    /\ UNCHANGED <<queues, next_job_id, clock, issued, completed, seen>>

\* the removal loop of complete_job and cancel_job, and the return
remove_and_return ==
    /\ writer.pc = "remove"
    /\ queues' = RemoveFromQueues(queues, writer.job_id)
    /\ last' = Call(writer.op, writer.job_id, "", TRUE, "")
    /\ completed' = IF writer.op = "complete_job"
                      THEN completed \cup {writer.job_id} ELSE completed
    /\ writer' = WriterIdle
    /\ UNCHANGED <<jobs, next_job_id, clock, issued, seen>>

\* what a call has read: the ids it took from a queue and self.jobs[id] for
\* each of them
Read(op, queue, ids) ==
    [op |-> op, queue |-> queue, ids |-> ids,
     jobs |-> [id \in Listed(ids) \cap DOMAIN jobs |-> jobs[id]]]

\* get_queue_stats reads the queue's list and the record of each id in it
read_queue_stats(queue) ==
    /\ seen' = Read("get_queue_stats", queue,
                     IF queue \in DOMAIN queues THEN queues[queue] ELSE <<>>)
    /\ UNCHANGED <<queue_vars, writer>>

\* get_next_job reads the head of the queue's list and its record
read_next_job(queue) ==
    /\ seen' = Read("get_next_job", queue,
                     IF queue \notin DOMAIN queues \/ queues[queue] = <<>>
                        THEN <<>> ELSE <<HeadOf(queues, queue)>>)
    /\ UNCHANGED <<queue_vars, writer>>

\* get_jobs reads the job table only
read_jobs ==
    /\ seen' = [op |-> "get_jobs", queue |-> "", ids |-> <<>>, jobs |-> jobs]
    /\ UNCHANGED <<queue_vars, writer>>

ConcFrame ==
    UNCHANGED <<script_vars, monitor_vars, exec_vars, shell_vars, parse_vars,
                shell_jobs, shell_next_job_id, builtin>>

WriterSubmits ==
    /\ next_job_id <= MaxJobs
    /\ \E q \in ConcQueues, p \in ConcPriorities : submit_job_store(q, p)
    /\ ConcFrame

WriterAppends ==
    /\ submit_job_append
    /\ ConcFrame

WriterSorts ==
    /\ submit_job_sort
    /\ ConcFrame

WriterReturns ==
    /\ submit_job_return
    /\ ConcFrame

WriterStarts ==
    /\ writer.pc = "idle"
    /\ \E id \in IdArgs : start_job(id)
    /\ UNCHANGED <<writer, seen>>
    /\ ConcFrame

WriterCompletes ==
    /\ \E id \in IdArgs : complete_job_mark(id, 0)
    /\ ConcFrame

WriterCancels ==
    /\ \E id \in IdArgs : cancel_job_mark(id)
    /\ ConcFrame

WriterRemoves ==
    /\ remove_and_return
    /\ ConcFrame

ReaderGetQueueStats ==
    /\ \E q \in ConcQueues : read_queue_stats(q)
    /\ ConcFrame

ReaderGetNextJob ==
    /\ \E q \in ConcQueues : read_next_job(q)
    /\ ConcFrame

ReaderGetJobs ==
    /\ read_jobs
    /\ ConcFrame

ConcNext ==
    \/ WriterSubmits
    \/ WriterAppends
    \/ WriterSorts
    \/ WriterReturns
    \/ WriterStarts
    \/ WriterCompletes
    \/ WriterCancels
    \/ WriterRemoves
    \/ ReaderGetQueueStats
    \/ ReaderGetNextJob
    \/ ReaderGetJobs

ConcSpec == ExecSpecInit /\ [][ConcNext]_vars

(***************************************************************************)
(* BuiltinSpec: the built-in commands that deal with jobs, and external    *)
(* commands, in any order, while the processes they started run and exit.  *)
(***************************************************************************)
MaxShellJobs == 3   \* job ids the shell hands out

\* the argument lists given to run
RunArgs ==
    {<<>>,
     <<Word("x")>>,
     <<[dashes |-> TRUE, text |-> "cores"], Word("4")>>,
     <<[dashes |-> TRUE, text |-> "cores"], Word("4"), Word("x")>>,
     <<[dashes |-> TRUE, text |-> "memory"], Word("inf"), Word("x")>>}

\* the argument lists given to kill and monitor
JobIdArgs == {<<>>, <<Word("x")>>, <<Word("1")>>, <<Word("2")>>, <<Word("4")>>}

\* int(args[0]): the number, or ValueError
JobIdOf(token) ==
    IF token = Word("1") THEN Some(1)
    ELSE IF token = Word("2") THEN Some(2)
    ELSE IF token = Word("4") THEN Some(4)
    ELSE None

\* what the psutil calls of execute_with_resources do for a job
RunFaults ==
    {f \in ConstraintFaults :
        /\ f.process \in {"", "NoSuchProcess"}
        /\ f.affinity = "" /\ f.rlimit = "" /\ f.nice = ""}

\* resources.get('cores'), resources.get('memory'), resources.get('priority')
\* of the options of parse_hpc_options
ResourcesOf(options) ==
    [cores |-> IF options.cores = None THEN 0 ELSE options.cores[1],
     memory |-> IF options.memory \in {None, Some(0)} THEN 0 ELSE 1,
     priority |-> options.priority.text]

BuiltinCall(command) == [NoBuiltin EXCEPT !.command = command]

KillProcessAlways(pid) == TRUE

\* CommandExecutor.kill_process: psutil.Process(pid).send_signal(SIGTERM)
\* returns True, NoSuchProcess gives False
KillProcess(pid) == procs[pid] = "running"

\* cmd_run, called through BuiltinCommands.execute, which catches what it
\* raises
cmd_run(args, launch, cpu_count, f) ==
    LET parsed == ParseHpcOptions(args)
        job_id == shell_next_job_id
    IN  IF args = <<>>
          THEN /\ builtin' = BuiltinCall("run")
               /\ UNCHANGED <<shell_jobs, shell_next_job_id, procs, next_pid,
                              processes, outcome>>
        ELSE IF parsed.exc # ""
          THEN /\ builtin' = [BuiltinCall("run") EXCEPT !.exc = parsed.exc]
               /\ UNCHANGED <<shell_jobs, shell_next_job_id, procs, next_pid,
                              processes, outcome>>
        ELSE IF parsed.args = <<>>
          THEN /\ builtin' = BuiltinCall("run")
               /\ UNCHANGED <<shell_jobs, shell_next_job_id, procs, next_pid,
                              processes, outcome>>
        ELSE /\ shell_next_job_id' = shell_next_job_id + 1
             /\ execute_with_resources(launch, ResourcesOf(parsed.options),
                                       cpu_count, f)
             /\ builtin' = [BuiltinCall("run") EXCEPT
                                !.job_id = job_id,
                                !.pid = outcome'.pid,
                                !.exc = outcome'.exc]
             /\ shell_jobs' =
                    IF outcome'.exc = "" /\ outcome'.ret # None
                      THEN [i \in DOMAIN shell_jobs \cup {job_id} |->
                              IF i = job_id
                                THEN [job_id |-> job_id,
                                      pid |-> outcome'.ret[1],
                                      command |-> parsed.args,
                                      status |-> "RUNNING"]
                                ELSE shell_jobs[i]]
                      ELSE shell_jobs

\* cmd_kill
cmd_kill(args, dies) ==
    /\ UNCHANGED <<shell_next_job_id, next_pid, processes, outcome>>
    /\ IF args = <<>> \/ JobIdOf(args[1]) = None
         THEN /\ builtin' = BuiltinCall("kill")
              /\ UNCHANGED <<shell_jobs, procs>>
       ELSE LET job_id == JobIdOf(args[1])[1]
            IN  IF job_id \notin DOMAIN shell_jobs
                  THEN /\ builtin' = [BuiltinCall("kill") EXCEPT
                                        !.job_id = job_id]
                       /\ UNCHANGED <<shell_jobs, procs>>
                  ELSE LET pid == shell_jobs[job_id].pid
                       IN  /\ builtin' = [BuiltinCall("kill") EXCEPT
                                            !.job_id = job_id,
                                            !.pid = pid,
                                            !.delivered = KillProcess(pid)]
                           /\ shell_jobs' =
                                IF KillProcess(pid)
                                  THEN [shell_jobs EXCEPT
                                            ![job_id].status = "KILLED"]
                                  ELSE shell_jobs
                           /\ procs' =
                                IF procs[pid] = "running" /\ dies
                                  THEN [procs EXCEPT ![pid] = "exited"]
                                  ELSE procs

\* cmd_monitor
cmd_monitor(args, exit_before) ==
    /\ UNCHANGED shell_next_job_id
    /\ IF args = <<>> \/ JobIdOf(args[1]) = None
         THEN /\ builtin' = BuiltinCall("monitor")
              /\ UNCHANGED <<shell_jobs, procs, next_pid, processes, outcome>>
       ELSE LET job_id == JobIdOf(args[1])[1]
            IN  IF job_id \notin DOMAIN shell_jobs
                  THEN /\ builtin' = [BuiltinCall("monitor") EXCEPT
                                        !.job_id = job_id]
                       /\ UNCHANGED <<shell_jobs, procs, next_pid, processes,
                                      outcome>>
                  ELSE LET pid == shell_jobs[job_id].pid
                       IN  /\ executor_get_process_stats(pid, exit_before)
                           /\ builtin' = [BuiltinCall("monitor") EXCEPT
                                            !.job_id = job_id,
                                            !.pid = pid,
                                            !.stats = outcome'.ret]
                           /\ shell_jobs' =
                                IF outcome'.ret = None
                                  THEN [shell_jobs EXCEPT
                                            ![job_id].status = "COMPLETED"]
                                  ELSE shell_jobs

cmd_submit_enqueues ==
    /\ builtin' = BuiltinCall("submit")
    /\ submit_job("default", "normal")
    /\ UNCHANGED <<shell_jobs, shell_next_job_id>>

\* cmd_submit: two messages
cmd_submit ==
    /\ builtin' = BuiltinCall("submit")
    /\ UNCHANGED <<queue_vars, shell_jobs, shell_next_job_id>>

\* cmd_queue and cmd_jobs: a message, a listing of the shell's job table
cmd_prints(command) ==
    /\ builtin' = BuiltinCall(command)
    /\ UNCHANGED <<queue_vars, shell_jobs, shell_next_job_id>>

BuiltinFrame ==
    UNCHANGED <<script_vars, monitor_vars, ex, shell_vars, parse_vars, writer,
                seen>>

CmdRun ==
    /\ shell_next_job_id <= MaxShellJobs
    /\ next_pid <= MaxPids
    /\ \E args \in RunArgs, launch \in {"ok", "FileNotFoundError"},
          cpu_count \in CpuCounts, f \in RunFaults :
            cmd_run(args, launch, cpu_count, f)
    /\ UNCHANGED queue_vars
    /\ BuiltinFrame

CmdKill ==
    /\ \E args \in JobIdArgs, dies \in BOOLEAN : cmd_kill(args, dies)
    /\ UNCHANGED queue_vars
    /\ BuiltinFrame

CmdMonitor ==
    /\ \E args \in JobIdArgs, exit_before \in 0..Len(ExecutorCollects) :
            cmd_monitor(args, exit_before)
    /\ UNCHANGED queue_vars
    /\ BuiltinFrame

CmdSubmit ==
    /\ cmd_submit
    /\ UNCHANGED <<procs, next_pid, processes, outcome>>
    /\ BuiltinFrame

CmdPrints ==
    /\ \E command \in {"queue", "jobs"} : cmd_prints(command)
    /\ UNCHANGED <<procs, next_pid, processes, outcome>>
    /\ BuiltinFrame

\* an external command without redirections, dispatched to execute
ExternalDescriptors ==
    {cmd \in Descriptors :
        cmd.redirects = <<>> /\ cmd.launch \in {"ok", "FileNotFoundError"}}

ExternalCommand ==
    /\ ex.pc \in {"idle", "done"}
    /\ next_pid <= MaxPids
    /\ \E cmd \in ExternalDescriptors : execute(cmd)
    /\ ExecFrame

BuiltinNext ==
    \/ CmdRun
    \/ CmdKill
    \/ CmdMonitor
    \/ CmdSubmit
    \/ CmdPrints
    \/ ExternalCommand
    \/ WaitReturns
    \/ WaitInterrupted
    \/ ProcExits

BuiltinSpec == ExecSpecInit /\ [][BuiltinNext]_vars

(***************************************************************************)
(* DispatchSpec: a dispatcher that serves one queue while jobs are still   *)
(* being submitted to it: it takes a job with get_next_job, starts the job *)
(* it took, and completes the jobs it started, in any order.               *)
(***************************************************************************)
DispatchSubmit ==
    /\ next_job_id <= MaxDrainJobs
    /\ \E p \in PriorityArgs :
        submit_job(DrainQueue, p) /\ UNCHANGED <<script_vars, ext_vars>>

DispatchTake ==
    /\ cur = None
    /\ get_next_job(DrainQueue)
    /\ cur' = last'.ret
    /\ dequeued' = IF last'.ret = None THEN dequeued
                   ELSE Append(dequeued, last'.ret[1])
    /\ UNCHANGED <<phase, ext_vars>>

DispatchStart ==
    /\ cur # None
    /\ start_job(cur[1])
    /\ cur' = None
    /\ UNCHANGED <<phase, dequeued, ext_vars>>

DispatchComplete ==
    /\ \E id \in Listed(dequeued), rc \in ReturnCodes :
        /\ jobs[id].status = "running"
        /\ complete_job(id, rc)
    /\ UNCHANGED <<script_vars, ext_vars>>

DispatchNext ==
    \/ DispatchSubmit
    \/ DispatchTake
    \/ DispatchStart
    \/ DispatchComplete

DispatchSpec == ExecSpecInit /\ [][DispatchNext]_vars

(***************************************************************************)
(* Properties.                                                             *)
(***************************************************************************)
IsListed(qs, id) == \E q \in DOMAIN qs : id \in Listed(qs[q])

NoDuplicates(s) == \A i, j \in 1 .. Len(s) : s[i] = s[j] => i = j

\* a is ahead of b: higher urgency, or the same priority and submitted earlier
Ahead(a, b) ==
    \/ jobs[a].priority < jobs[b].priority
    \/ jobs[a].priority = jobs[b].priority /\ a < b

LegalTransitions ==
    {<<"queued", "running">>, <<"running", "completed">>,
     <<"running", "failed">>, <<"queued", "cancelled">>}

\* C1: over every step, a job's status either stays as it is or moves along
\* queued->running, running->completed, running->failed or queued->cancelled.
C1_OnlyLegalTransitions ==
    [][\A id \in DOMAIN jobs :
        \/ jobs'[id].status = jobs[id].status
        \/ <<jobs[id].status, jobs'[id].status>> \in LegalTransitions]_vars

\* C2: in every reachable state every queue is ordered ascending by
\* (priority value, created_at), and within one priority by submission order.
C2_QueuesSorted ==
    \A q \in DOMAIN queues :
        \A i, j \in 1 .. Len(queues[q]) :
            i < j =>
                LET a == jobs[queues[q][i]]
                    b == jobs[queues[q][j]]
                IN  /\ a.priority <= b.priority
                    /\ a.priority = b.priority =>
                        (a.created_at <= b.created_at /\ a.job_id < b.job_id)

\* A queue whose later-submitted job was sorted ahead of an earlier one.
C2_Witness ==
    \E q \in DOMAIN queues :
        /\ Len(queues[q]) = 2
        /\ queues[q][1] > queues[q][2]
        /\ last.op = "submit_job"

\* C3: the dispatcher takes the jobs of the queue it serves in ascending
\* priority value and, within one priority, in submission order: the jobs taken
\* so far are in that order, each is ahead of every job still waiting in the
\* queue, taken and waiting jobs together are exactly the jobs submitted to the
\* queue, and get_next_job returns nothing only when no job is waiting.
C3_DequeueOrder ==
    LET d == dequeued
        waiting == Listed(queues[DrainQueue]) \ Listed(d)
    IN  /\ \A i, j \in 1 .. Len(d) : i < j => Ahead(d[i], d[j])
        /\ \A i \in 1 .. Len(d) : \A w \in waiting : Ahead(d[i], w)
        /\ Listed(d) \cup waiting
                = {id \in DOMAIN jobs : jobs[id].queue = DrainQueue}
        /\ (phase = "drain" /\ cur = None /\ last.op = "get_next_job"
                /\ last.ret = None)
            => waiting = {}

\* Submissions [low, high, normal] to one queue came out as [high, normal, low].
C3_Witness ==
    /\ DOMAIN jobs = {1, 2, 3}
    /\ jobs[1].priority = Priority.LOW
    /\ jobs[2].priority = Priority.HIGH
    /\ jobs[3].priority = Priority.NORMAL
    /\ \A id \in DOMAIN jobs : jobs[id].queue = DrainQueue
    /\ dequeued = <<2, 3, 1>>
    /\ \A id \in DOMAIN jobs : jobs[id].status = "completed"

\* C4: the ids submit_job has returned are strictly increasing, they are
\* exactly the ids of the job table, and each job carries its own id.
C4_IdsIncreasing ==
    /\ \A i, j \in 1 .. Len(issued) : i < j => issued[i] < issued[j]
    /\ DOMAIN jobs = Listed(issued)
    /\ Cardinality(DOMAIN jobs) = Len(issued)
    /\ \A id \in DOMAIN jobs : jobs[id].job_id = id

\* A second submission made after the first job was completed.
C4_Witness ==
    /\ Len(issued) = 2
    /\ 1 \in completed
    /\ last.op = "submit_job"
    /\ last.ret = 2

\* C5: a cancel_job call on a running, completed, failed or cancelled job
\* returns false and leaves the job table and the queues as they were.
C5_CancelNonQueuedRejected ==
    [][\A id \in DOMAIN jobs :
        (/\ jobs[id].status \in {"running", "completed", "failed", "cancelled"}
         /\ last'.op = "cancel_job"
         /\ last'.job_id = id)
        => (last'.ret = FALSE /\ jobs' = jobs /\ queues' = queues)]_vars

\* C6: a cancel_job call on a running job returns false, raises nothing and
\* leaves the job (its status, its place in its queue) and everything else
\* as it was.
C6_CancelRunningRejected ==
    [][\A id \in DOMAIN jobs :
        (/\ jobs[id].status = "running"
         /\ last'.op = "cancel_job"
         /\ last'.job_id = id)
        => (/\ last'.exc = ""
            /\ last'.ret = FALSE
            /\ jobs' = jobs
            /\ queues' = queues)]_vars

\* cancel_job has just been refused for a running job still listed in its queue.
C6_Witness ==
    /\ last.op = "cancel_job"
    /\ last.job_id \in DOMAIN jobs
    /\ last.ret = FALSE
    /\ jobs[last.job_id].status = "running"
    /\ jobs[last.job_id].queue \in DOMAIN queues
    /\ last.job_id \in Listed(queues[jobs[last.job_id].queue])

\* C7: a job that complete_job has completed is listed in no queue, and no
\* get_next_job call made afterwards returns it.
C7_CompletedNeverReturned ==
    \A id \in completed :
        /\ ~IsListed(queues, id)
        /\ ~(last.op = "get_next_job" /\ last.ret = Some(id))

\* get_next_job returned a job from a queue one of whose jobs was completed.
C7_Witness ==
    /\ last.op = "get_next_job"
    /\ last.ret # None
    /\ \E id \in completed : jobs[id].queue = last.queue

\* C8 (as stated): no queue lists a job that is running, completed, failed or
\* cancelled, and no id appears twice in a queue.
C8_NoRunningListed ==
    \A q \in DOMAIN queues :
        /\ NoDuplicates(queues[q])
        /\ \A id \in Listed(queues[q]) : jobs[id].status = "queued"

\* C8 (amended): a job id leaves its queue only in a successful complete_job or
\* cancel_job call on it and never comes back; every listed job is queued or
\* running, listed in the queue it was submitted to and in no other, and no id
\* appears twice in a queue.
C8_RemovedOnceAtTerminal ==
    /\ [](\A q \in DOMAIN queues :
            /\ NoDuplicates(queues[q])
            /\ \A id \in Listed(queues[q]) :
                /\ jobs[id].status \in {"queued", "running"}
                /\ jobs[id].queue = q)
    /\ [][\A id \in DOMAIN jobs :
            /\ (IsListed(queues, id) /\ ~IsListed(queues', id))
                => (/\ last'.op \in {"complete_job", "cancel_job"}
                    /\ last'.job_id = id
                    /\ last'.ret = TRUE)
            /\ ~IsListed(queues, id) => ~IsListed(queues', id)]_vars

\* A running job is still listed while another job has left the queues.
C8_Witness ==
    /\ \E id \in DOMAIN jobs :
        jobs[id].status = "running" /\ IsListed(queues, id)
    /\ \E id \in DOMAIN jobs :
        jobs[id].status \in {"completed", "cancelled"} /\ ~IsListed(queues, id)

\* C9: start_job, complete_job and cancel_job called with an id that is not in
\* the job table return false, raise nothing and change neither the job table
\* nor any queue nor the id counter.
C9_UnknownIdRejected ==
    [][(/\ last'.op \in {"start_job", "complete_job", "cancel_job"}
        /\ last'.job_id \notin DOMAIN jobs)
       => (/\ last'.exc = ""
           /\ last'.ret = FALSE
           /\ jobs' = jobs
           /\ queues' = queues
           /\ next_job_id' = next_job_id)]_vars

\* complete_job has just been refused for an id that was never submitted,
\* while other jobs exist.
C9_Witness ==
    /\ last.op = "complete_job"
    /\ last.job_id \notin DOMAIN jobs
    /\ last.ret = FALSE
    /\ DOMAIN jobs # {}
    /\ \E q \in DOMAIN queues : queues[q] # <<>>

\* C10: a running job has started_at set, a completed, failed or cancelled job
\* has completed_at set, and a completed job has return_code set.
C10_TimestampsSet ==
    \A id \in DOMAIN jobs :
        /\ jobs[id].status = "running" => jobs[id].started_at # None
        /\ jobs[id].status \in {"completed", "failed", "cancelled"}
            => jobs[id].completed_at # None
        /\ jobs[id].status = "completed" => jobs[id].return_code # None

Smaller(a, b) == IF a < b THEN a ELSE b

\* C11: no ring holds more than history_size samples, and each ring holds the
\* last min(n, history_size) of the n samples appended to it, in insertion
\* order: the first n - history_size are gone.
C11_RingKeepsNewest ==
    \A m \in Metrics :
        LET n == Len(inserted[m])
            k == IF n > HistorySize THEN n - HistorySize ELSE 0
        IN  /\ Len(history[m]) <= HistorySize
            /\ history[m] = SubSeq(inserted[m], k + 1, n)

\* The cpu ring has overflowed twice and the disk ring once; the oldest sample
\* of each is absent.
C11_Witness ==
    /\ Len(inserted["cpu"]) = HistorySize + 2
    /\ Len(inserted["disk"]) = HistorySize + 1
    /\ inserted["cpu"][1] \notin Listed(history["cpu"])
    /\ inserted["cpu"][2] \notin Listed(history["cpu"])
    /\ inserted["disk"][1] \notin Listed(history["disk"])

\* C12 (as stated): after n successful get_system_stats calls each of the four
\* rings holds min(n, history_size) samples.
C12_FourSamplesPerCall ==
    \A m \in Metrics : Len(history[m]) = Smaller(taken, HistorySize)

\* C12 (amended): after n successful calls the cpu and memory rings hold
\* min(n, history_size) samples; the disk and network rings hold
\* min(n - 1, history_size), the first call only recording the baseline, and
\* stay empty on a host without such counters.
C12_SamplesPerCall ==
    LET later == IF taken > 0 THEN taken - 1 ELSE 0
    IN  /\ Len(history["cpu"]) = Smaller(taken, HistorySize)
        /\ Len(history["memory"]) = Smaller(taken, HistorySize)
        /\ Len(history["disk"])
            = IF platform.disk THEN Smaller(later, HistorySize) ELSE 0
        /\ Len(history["network"])
            = IF platform.net THEN Smaller(later, HistorySize) ELSE 0

\* After two calls on a host with both counters: two cpu samples, one disk and
\* one network sample.
C12_Witness ==
    /\ taken = 2
    /\ platform.disk /\ platform.net
    /\ mon.op = "get_system_stats"
    /\ Len(history["cpu"]) = 2
    /\ Len(history["disk"]) = 1
    /\ Len(history["network"]) = 1

\* C13: a get_history call returns the retained samples of the metric whose
\* timestamp is at least now - duration, in ring order, returns the empty
\* sequence for a name that is no ring, and changes no ring.
C13_HistorySince ==
    [][\A m \in MetricArgs :
        (mon'.op = "get_history" /\ mon'.metric = m)
        => /\ history' = history
           /\ mon'.exc = ""
           /\ IF m \in Metrics
                THEN mon'.ret = SelectSeq(history[m],
                        LAMBDA e : e.timestamp >= clock' - mon'.duration)
                ELSE mon'.ret = <<>>]_vars

\* get_history has returned some, and not all, of the samples of a ring.
C13_Witness ==
    /\ mon.op = "get_history"
    /\ mon.metric = "cpu"
    /\ mon.ret # <<>>
    /\ Len(mon.ret) < Len(history["cpu"])

C15_ForegroundWaitsForExit ==
    (ex.pc = "done" /\ ex.spawned)
        => IF ex.background
             THEN ~ex.waited
             ELSE /\ procs[ex.pid] = "exited"
                  /\ ex.forwarded = ex.interrupts

\* C16: execute never raises; it returns the process handle for a background
\* launch and nothing for a foreground or a failed launch.
C16_HandleOrNothing ==
    ex.pc = "done"
        => /\ ex.exc = ""
           /\ ex.ret = IF ex.background /\ ex.launch = "ok"
                         THEN Some(ex.pid) ELSE None

StdoutTypes == {">", ">>", "&>"}
StderrTypes == {"2>", "&>"}
Unopenable(redirects, types) ==
    \E i \in DOMAIN redirects :
        redirects[i].type \in types /\ ~redirects[i].openable

\* C17: execute calls Popen whatever redirect target cannot be opened, with
\* stdout (stderr) inherited when a stdout (stderr) target cannot be opened
\* and stdin the discard source when the stdin target cannot be opened.
C17_UnopenableFallsBack ==
    ex.pc # "idle"
        => /\ ex.launch # ""
           /\ Unopenable(ex.redirects, StdoutTypes)
                => ex.streams.stdout = Inherit
           /\ Unopenable(ex.redirects, StderrTypes)
                => ex.streams.stderr = Inherit
           /\ Unopenable(ex.redirects, {"<"}) => ex.streams.stdin = DEVNULL

\* C18: an execute_with_resources call that has spawned its process returns
\* the handle of that process and raises nothing, whichever constraint
\* failed; the process is still running unless it had exited by itself.
C18_HandleDespiteFailures ==
    (outcome.op = "execute_with_resources" /\ outcome.pid # 0)
        => /\ outcome.exc = ""
           /\ outcome.ret = Some(outcome.pid)
           /\ outcome.fault # "NoSuchProcess" => ~outcome.gone

\* A constraint was refused (AccessDenied) after another had been applied,
\* and the handle was returned.
C18_Witness ==
    /\ outcome.op = "execute_with_resources"
    /\ outcome.fault = "AccessDenied"
    /\ outcome.applied # {}
    /\ outcome.ret = Some(outcome.pid)
    /\ procs[outcome.pid] = "running"

\* C19: get_process_stats, of the executor and of the monitor, raises nothing
\* and returns nothing when the process does not exist at the end of the
\* collection, whether it never existed or exited during the collection.
C19_NothingForGoneProcess ==
    outcome.op \in {"executor.get_process_stats", "monitor.get_process_stats"}
        => /\ outcome.exc = ""
           /\ outcome.gone => outcome.ret = None

\* C20: no stage with an empty command is passed to the executor: every
\* execute call the dispatch has made had a program name.
C20_EmptyCommandNotExecuted ==
    ex.pc # "idle" => ex.command # <<>>

\* the first token after a redirection operator, if the text has one
FilenameAfter(raw, match) ==
    LET rest == Strip(SubSeq(raw, match.end + 1, Len(raw)))
    IN  IF rest # <<>> /\ ShlexSplit(rest).ok
            THEN Some(Head(ShlexSplit(rest).tokens))
            ELSE None

\* C21: in every stage of a parsed line, the redirects mapping holds, for each
\* operator, the file name that follows its rightmost occurrence in the
\* stage, whatever other operators the stage has.
C21_LastRedirectWins ==
    result.op = "parse" =>
        \A i \in DOMAIN result.ret :
            LET stage == result.ret[i]
                matches == RedirectMatches(stage.raw)
            IN  \A k \in DOMAIN matches :
                    (/\ \A l \in DOMAIN matches :
                            l > k => matches[l].type # matches[k].type
                     /\ FilenameAfter(stage.raw, matches[k]) # None)
                    => \E j \in DOMAIN stage.redirects :
                        /\ stage.redirects[j].type = matches[k].type
                        /\ Some(stage.redirects[j].filename)
                            = FilenameAfter(stage.raw, matches[k])

\* The text of a stage without its redirection operators and the file name
\* token after each: mode is "text", "operator" (just after an operator) or
\* "filename" (inside the token after it).
RECURSIVE WithoutRedirections(_, _, _)
WithoutRedirections(raw, i, mode) ==
    IF i > Len(raw) THEN <<>>
    ELSE IF mode = "text"
        THEN IF MatchLen(raw, i) > 0
                THEN <<" ">> \o WithoutRedirections(raw, i + MatchLen(raw, i),
                                                    "operator")
                ELSE <<raw[i]>> \o WithoutRedirections(raw, i + 1, "text")
    ELSE IF raw[i] \in Whitespace
        THEN IF mode = "operator"
                THEN WithoutRedirections(raw, i + 1, "operator")
                ELSE WithoutRedirections(raw, i, "text")
    ELSE WithoutRedirections(raw, i + 1, "filename")

Unquoted(raw) == \A i \in DOMAIN raw : raw[i] \notin Quotes \cup {Escape}

\* every redirection operator of the text is a token of its own
OperatorsSpaced(raw) ==
    \A k \in DOMAIN RedirectMatches(raw) :
        LET end == RedirectMatches(raw)[k].end
            start == IF RedirectMatches(raw)[k].type \in {">", "<"}
                        THEN end ELSE end - 1
        IN  /\ start = 1 \/ raw[start - 1] \in Whitespace
            /\ end = Len(raw) \/ raw[end + 1] \in Whitespace

\* C22: in every stage written without quotes and with white space around its
\* operators, the program name and the arguments are the tokens of the stage
\* that are neither a redirection operator nor the file name token after one,
\* in their order.
C22_OtherTokensKept ==
    result.op = "parse" =>
        \A i \in DOMAIN result.ret :
            LET stage == result.ret[i]
                kept == Tokens(WithoutRedirections(stage.raw, 1, "text"))
            IN  (Unquoted(stage.raw) /\ OperatorsSpaced(stage.raw))
                => /\ stage.command
                        = IF kept = <<>> THEN <<>> ELSE Head(kept)
                   /\ stage.args = IF kept = <<>> THEN <<>> ELSE Tail(kept)

\* C23: stage i of the n stages of a parsed line receives from the previous
\* stage exactly when it is not the first and sends to the next exactly when
\* it is not the last; a stage is in the background only if it is the last
\* and the line, stripped, ends with "&".
C23_PipeAndBackgroundFlags ==
    result.op = "parse" =>
        \A i \in DOMAIN result.ret :
            /\ result.ret[i].pipe_from = (i > 1)
            /\ result.ret[i].pipe_to = (i < Len(result.ret))
            /\ result.ret[i].background
                => /\ i = Len(result.ret)
                   /\ Strip(arg) # <<>>
                   /\ Strip(arg)[Len(Strip(arg))] = "&"

\* A line ending with "&" was parsed into two stages, the second of them in
\* the background.
C23_Witness ==
    /\ result.op = "parse"
    /\ Len(result.ret) = 2
    /\ result.ret[2].background
    /\ ~result.ret[1].background
    /\ result.ret[1].pipe_to /\ ~result.ret[1].pipe_from
    /\ result.ret[2].pipe_from /\ ~result.ret[2].pipe_to

\* a quote character that is not preceded by a backslash
IsQuoteAt(line, i) == line[i] \in Quotes /\ (i = 1 \/ line[i - 1] # Escape)

Least(S) == CHOOSE x \in S : \A y \in S : x <= y

\* Position p lies in a quoted region that starts at or after position i: a
\* region starts at a quote and ends at the next quote of the same kind, or
\* at the end of the line.
RECURSIVE QuotedFrom(_, _, _)
QuotedFrom(line, i, p) ==
    LET opening == {k \in i..Len(line) : IsQuoteAt(line, k)}
        closing == {k \in (Least(opening) + 1)..Len(line) :
                        IsQuoteAt(line, k) /\ line[k] = line[Least(opening)]}
    IN  IF opening = {} \/ Least(opening) > p THEN FALSE
        ELSE IF closing = {} \/ p < Least(closing) THEN TRUE
        ELSE QuotedFrom(line, Least(closing) + 1, p)

UnquotedPipes(line) ==
    {p \in DOMAIN line : line[p] = "|" /\ ~QuotedFrom(line, 1, p)}

\* the texts between the pipes outside quotes, from the split point a on
RECURSIVE SegmentsFrom(_, _)
SegmentsFrom(line, a) ==
    LET b == Least({q \in UnquotedPipes(line) \cup {Len(line) + 1} : q > a})
    IN  IF a > Len(line) THEN <<>>
        ELSE <<SubSeq(line, a + 1, b - 1)>> \o SegmentsFrom(line, b)

RECURSIVE Stripped(_)
Stripped(segments) ==
    IF segments = <<>> THEN <<>>
    ELSE <<Strip(Head(segments))>> \o Stripped(Tail(segments))

RECURSIVE TakesValue(_, _)
TakesValue(args, p) ==
    /\ p \in DOMAIN args
    /\ args[p].dashes
    /\ args[p].text \in OptionNames
    /\ p < Len(args)
    /\ ~TakesValue(args, p - 1)

\* the tokens from position p on that are neither such an option nor its value
RECURSIVE PassedThrough(_, _)
PassedThrough(args, p) ==
    IF p > Len(args) THEN <<>>
    ELSE IF TakesValue(args, p) \/ TakesValue(args, p - 1)
    THEN PassedThrough(args, p + 1)
    ELSE <<args[p]>> \o PassedThrough(args, p + 1)

C26_ReaderSeesNoIntermediateState ==
    seen.op # "" =>
        /\ \A i \in DOMAIN seen.ids :
            /\ seen.ids[i] \in DOMAIN seen.jobs
            /\ seen.jobs[seen.ids[i]].status \notin {"completed", "cancelled"}
        /\ \A i, j \in DOMAIN seen.ids :
            (i < j /\ {seen.ids[i], seen.ids[j]} \subseteq DOMAIN seen.jobs)
                => KeyLE(seen.jobs, seen.ids[i], seen.ids[j])

\* C27: whatever commands the shell has executed, the Job Queue is as
\* constructed (no job, every configured queue empty, next id 1), and the
\* jobs that run started are in the shell's own table under ids of its own
\* counter.
C27_JobQueueUntouched ==
    /\ jobs = <<>>
    /\ queues = [q \in ConfigQueues |-> <<>>]
    /\ next_job_id = 1
    /\ \A id \in DOMAIN shell_jobs : id < shell_next_job_id

\* run has started two jobs, an external command has been launched and
\* submit was the last command.
C27_Witness ==
    /\ builtin.command = "submit"
    /\ Cardinality(DOMAIN shell_jobs) = 2
    /\ shell_next_job_id > 2
    /\ ex.pc = "done"
    /\ jobs = <<>>

\* C30: a job enters the shell's table with status RUNNING under the id of
\* the counter, which never decreases; afterwards its entry stays, and its
\* status changes only to KILLED, in a kill of that job whose signal reached
\* the process of the recorded pid, or to COMPLETED, in a monitor of that job
\* that obtained no statistics for the pid.
C30_JobTableLifecycle ==
    [][/\ shell_next_job_id' >= shell_next_job_id
       /\ \A id \in DOMAIN shell_jobs :
            /\ id \in DOMAIN shell_jobs'
            /\ shell_jobs'[id].pid = shell_jobs[id].pid
            /\ \/ shell_jobs'[id].status = shell_jobs[id].status
               \/ /\ shell_jobs'[id].status = "KILLED"
                  /\ builtin'.command = "kill"
                  /\ builtin'.job_id = id
                  /\ procs[shell_jobs[id].pid] = "running"
               \/ /\ shell_jobs'[id].status = "COMPLETED"
                  /\ builtin'.command = "monitor"
                  /\ builtin'.job_id = id
                  /\ outcome'.op = "executor.get_process_stats"
                  /\ outcome'.pid = shell_jobs[id].pid
                  /\ outcome'.ret = None
       /\ \A id \in DOMAIN shell_jobs' \ DOMAIN shell_jobs :
            /\ builtin'.command = "run"
            /\ shell_jobs'[id].status = "RUNNING"
            /\ id = shell_next_job_id
            /\ id < shell_next_job_id'
            /\ \A other \in DOMAIN shell_jobs : other < id]_vars

\* One job was killed and then found gone by monitor, another is running
\* under a larger id.
C30_Witness ==
    /\ builtin.command = "monitor"
    /\ \E a, b \in DOMAIN shell_jobs :
        /\ a < b
        /\ shell_jobs[a].status = "COMPLETED"
        /\ procs[shell_jobs[a].pid] = "exited"
        /\ shell_jobs[b].status \in {"RUNNING", "KILLED"}

\* C28 (as stated, its conclusion): of the jobs the dispatcher has obtained
\* from a queue, at most one is not yet completed.
C28_OneDispatchedPerQueue ==
    Cardinality({id \in Listed(dequeued) : jobs[id].status # "completed"}) <= 1

\* C28 (amended): get_next_job and start_job leave every queue as it is;
\* get_next_job returns the first id of the queue if that job is queued and
\* nothing otherwise, also when queued jobs are listed behind a running
\* head; and a job it returns while a job of the queue is running has a
\* more urgent priority than the running one.
C28_HeadBlocksQueue ==
    [][/\ last'.op \in {"get_next_job", "start_job"} => queues' = queues
       /\ (last'.op = "get_next_job" /\ queues[last'.queue] # <<>>) =>
            /\ last'.exc = ""
            /\ last'.ret =
                IF jobs[queues[last'.queue][1]].status = "queued"
                  THEN Some(queues[last'.queue][1]) ELSE None
            /\ last'.ret # None =>
                \A id \in Listed(queues[last'.queue]) :
                    jobs[id].status = "running" =>
                        jobs[last'.ret[1]].priority < jobs[id].priority]_vars

\* get_next_job has returned nothing from a queue whose head is running and
\* which lists a queued job behind it.
C28_Witness ==
    /\ last.op = "get_next_job"
    /\ last.ret = None
    /\ Len(queues[DrainQueue]) >= 2
    /\ jobs[queues[DrainQueue][1]].status = "running"
    /\ jobs[queues[DrainQueue][2]].status = "queued"

\* C29: in every reachable state the status of each job is queued, running,
\* completed or cancelled, never failed; a job completed with a non-zero
\* return code has status completed.
C29_NeverFailed ==
    \A id \in DOMAIN jobs :
        /\ jobs[id].status \in {"queued", "running", "completed", "cancelled"}
        /\ (id \in completed /\ jobs[id].return_code # Some(0)
                /\ last.op = "complete_job" /\ last.job_id = id
                /\ last.ret = TRUE)
            => jobs[id].status = "completed"

\* complete_job has just completed a running job with return code 1.
C29_Witness ==
    /\ last.op = "complete_job"
    /\ last.ret = TRUE
    /\ jobs[last.job_id].return_code = Some(1)
    /\ jobs[last.job_id].started_at # None
    /\ jobs[last.job_id].status = "completed"

====
